---- MODULE Spec2Model ----
(***************************************************************************)
(* A model of t2, a push-to-talk voice-to-text daemon.                     *)
(*                                                                         *)
(*   Processor  internal/transcription/processor.go   transcript assembly  *)
(*   Client     internal/transcription/assemblyai.go  streaming connection *)
(*   Recorder   audio recorder with the silence gate  capture loop         *)
(*   Daemon     app daemon                            press/release        *)
(*                                                                         *)
(* Strings are sequences of one-character strings, so that concatenation   *)
(* and len() are the operations the code performs.  Confidence values are  *)
(* percentages (0.90 is 90).  Times are milliseconds.                      *)
(***************************************************************************)
EXTENDS Integers, Sequences, FiniteSets, TLC

VARIABLES
    \* ---- Processor (processor.go:8-19); resetCount is a write-only debug
    \* counter and is left out
    currentTranscript,      \* string
    lastTurnOrder,          \* int
    turnTranscripts,        \* map[int]string, as a set of <<turn, text>> pairs
    finalTranscripts,       \* []string
    sessionTerminated,      \* chan bool of capacity 1, as the sequence of buffered signals
    sessionActive,          \* bool
    bestPartialTranscript,  \* string
    bestPartialConfidence,  \* float64, in percent
    \* ---- observation of the calls made on the processor
    hist,                   \* turn messages of the session: those processed since the
                            \* last Reset or, once consumed, the ones that were consumed
    consumed,               \* what ConsumeTranscriptWithFallback returned, if called last
    lastCall,               \* the operation called last
    freshReset,             \* no turn message was processed since the last Reset
    \* ---- Client (assemblyai.go:44-56)
    wsConn,                 \* *websocket.Conn: 0 is nil, else the id of a connection
    chunkCount,             \* int
    lastChunkSize,          \* int
    connectionHealth,       \* int
    lastConnectionTime,     \* time.Time, in ms; ZeroTime before the first Connect
    sessionCount,           \* int
    failedSessions,         \* int
    \* ---- the transport and the clock
    connState,              \* per connection dialed: "none", "open", "dead" (closed or
                            \* reset by the peer), "closed" (closed by the client)
    nextConn,               \* connections dialed so far
    loopPc,                 \* per handleResponses goroutine, where it is ("none", "top",
                            \* "read", "done") and the connection it reads from
    now,                    \* wall clock, ms
    \* ---- observation of the calls made on the client
    clientRet,              \* the bool the last call on the client returned, or that its error was nil
    scenario,               \* how far the calls since Connect follow success, success, failure
    failRun,                \* ReportSessionFailure calls since the last ReportSessionSuccess
    lastWrite,              \* the frame the last call on the client alone wrote, and the
                            \* error of the write
                            \* or successful Connect
    \* ---- Recorder (the recorder with the silence gate)
    recording,              \* bool
    capturing,              \* the audioStreamLoop goroutine is running
    maxRMS,                 \* float64
    silenceChunks,          \* int
    speechState,            \* WaitingForSpeech or SpeechDetected
    prolongedSilence,       \* bool
    frameCount,             \* frames captured since Start
    pendingFrame,           \* audioStreamLoop holds a chunk the gate has seen, not sent yet
    \* ---- observation of the recorder
    frameScenario,          \* how many frames of the session, all of them so far, follow
                            \* ScenarioFrames; -1 once one does not
    anyLoud,                \* some frame of the session was at or above the threshold
    anyQuiet,               \* some frame of the session was below the threshold
    lastFrame,              \* what became of the frame read last
    \* ---- Daemon (the hotkey goroutine running OnPress and OnRelease)
    pc,                     \* where the hotkey goroutine is
    pressTime,              \* time.Time, ms
    \* ---- SimpleHotkeyManager, the key and Run
    keyDown,                \* Ctrl+Shift is down (what detectCtrlShift returns)
    wasPressed,             \* pollKeyState: the key state seen at the last change
    triggered,              \* chan bool of capacity 1
    released,               \* chan bool of capacity 1
    done,                   \* chan bool of capacity 1
    running,                \* SimpleHotkeyManager.running
    polling,                \* the pollKeyState goroutine is in its loop
    listenPc,               \* where Listen is: "none" before it is started, "select",
                            \* "press" (in or after handler.OnPress), "release" (in or
                            \* after handler.OnRelease), "returned"
    lastHandler,            \* the handler Listen called last
    cleanupPc,              \* where Cleanup is on the main goroutine
    \* ---- Client.wsMutex, for calls that come from two goroutines
    wsMutex,                \* the goroutine that holds the mutex, "free" if none does
    connectPc,              \* where the Connect of the hotkey goroutine is
    lockedOp,               \* the call the other goroutine holds the mutex for
    \* ---- the transcription service, per connection
    inbox,                  \* messages sent to the client and not read yet
    heard,                  \* sessions whose audio reached the service
    termReq,                \* sessions whose Terminate request is not answered yet
    turnsSent,              \* turn messages the service has sent
    \* ---- observation of the sessions
    session,                \* recordings started so far: the number of the current one
    presses,                \* press events that found no recording running
    waitSignal,             \* the signal that ended the termination wait, 0 if none did
    releaseOutcome,         \* how the last release ended
    ignored,                \* a press was ignored during the current recording
    refreshed,              \* the press being handled closed the connection for a refresh
    pasted,                 \* the texts handed to PasteTextSafely since the last press
    reported                \* the session reports made to the client since the last press

procVars == <<currentTranscript, lastTurnOrder, turnTranscripts, finalTranscripts,
              sessionTerminated, sessionActive, bestPartialTranscript,
              bestPartialConfidence>>
obsVars == <<hist, consumed, lastCall, freshReset>>
clientVars == <<wsConn, chunkCount, lastChunkSize, connectionHealth, lastConnectionTime,
                sessionCount, failedSessions>>
netVars == <<connState, nextConn, loopPc, now>>
clientObsVars == <<clientRet, scenario, failRun, lastWrite>>
recVars == <<recording, capturing, maxRMS, silenceChunks, speechState, prolongedSilence,
             frameCount, pendingFrame>>
gateObs == <<frameScenario, anyLoud, anyQuiet, lastFrame>>
hotkeyVars == <<keyDown, wasPressed, triggered, released, done, running, polling, listenPc,
               lastHandler, cleanupPc>>
lockVars == <<wsMutex, connectPc, lockedOp>>
daemonVars == <<pc, pressTime, hotkeyVars, lockVars>>
svcVars == <<inbox, heard, termReq, turnsSent>>
sessVars == <<session, presses, waitSignal, releaseOutcome, ignored, refreshed, pasted,
             reported>>
sysVars == <<recVars, gateObs, daemonVars, svcVars, sessVars>>
vars == <<procVars, obsVars, clientVars, netVars, clientObsVars, sysVars>>

----------------------------------------------------------------------------
(* Bounds of the model *)

\* turn messages processed within one session of the assembler
MaxHist == 3
\* connections dialed successfully
MaxConns == 2
\* audio chunks sent on one connection
MaxChunks == 1
\* clock ticks
MaxTicks == 1
\* sessions reported successful on one connection
MaxSessionCount == 2
\* consecutive sessions reported failed
MaxFailed == 3
\* press events handled by the daemon
MaxPresses == 2
\* frames captured in one recording
MaxFrames == 1
\* clock ticks of HoldTickMs while the key is held
MaxHoldTicks == 2
\* turn messages the service sends
MaxTurns == 1
\* recordings started by a daemon whose service stays silent
MaxDaemonSessions == 1
\* frames captured in one recording long enough for the silence gate to act
MaxGateFrames == 22

----------------------------------------------------------------------------
(* Strings *)

SP == " "
EmptyString == <<>>

\* the transcripts a turn message can carry: handleResponses drops the empty one
Texts == { <<"a">>, <<"b", "c">> }
\* end_of_turn_confidence values, in percent
Confidences == { 50, 90 }
\* the daemon always passes turn order 0; the processor accepts any
TurnOrders == { 0, 1 }

NoResult == [text |-> EmptyString, isFinal |-> FALSE]

----------------------------------------------------------------------------
(* Processor *)

\* processor.go:51-59, the loop that builds completeText from finalTranscripts
RECURSIVE CompleteText(_)
CompleteText(finals) ==
    IF finals = <<>> THEN EmptyString
    ELSE IF Len(finals) = 1 THEN finals[1]
    ELSE CompleteText(SubSeq(finals, 1, Len(finals) - 1)) \o <<SP>> \o finals[Len(finals)]

\* processor.go:46-47
AppendFinal(finals, transcript) == Append(finals, transcript \o <<SP>>)

\* processor.go:72, the condition under which a partial becomes the best partial
IsNewBestPartial(transcript, confidence, best, bestConf) ==
    confidence > bestConf \/ Len(transcript) > Len(best)

\* processor.go:30-85
ProcessTranscript(transcript, turnOrder, isComplete, endOfTurn, confidence) ==
    /\ IF isComplete
       THEN /\ finalTranscripts' = AppendFinal(finalTranscripts, transcript)
            /\ currentTranscript' = CompleteText(finalTranscripts')
            /\ UNCHANGED <<bestPartialTranscript, bestPartialConfidence>>
       ELSE /\ currentTranscript' = transcript
            /\ IF IsNewBestPartial(transcript, confidence,
                                   bestPartialTranscript, bestPartialConfidence)
               THEN /\ bestPartialTranscript' = transcript
                    /\ bestPartialConfidence' = confidence
               ELSE UNCHANGED <<bestPartialTranscript, bestPartialConfidence>>
            /\ UNCHANGED finalTranscripts
    /\ turnTranscripts' =
           { p \in turnTranscripts : p[1] # turnOrder } \cup { <<turnOrder, transcript>> }
    /\ lastTurnOrder' = IF turnOrder > lastTurnOrder THEN turnOrder ELSE lastTurnOrder
    /\ UNCHANGED <<sessionTerminated, sessionActive>>

\* processor.go:107-111, the non-blocking receive that drains the channel
Drain(ch) == IF ch # <<>> THEN Tail(ch) ELSE ch

\* Reset without line 102: the best partial survives the reset
ResetKeepsBestPartial ==
    /\ currentTranscript' = EmptyString
    /\ lastTurnOrder' = -1
    /\ turnTranscripts' = {}
    /\ finalTranscripts' = <<>>
    /\ bestPartialConfidence' = 0
    /\ sessionActive' = TRUE
    /\ sessionTerminated' = Drain(sessionTerminated)
    /\ UNCHANGED bestPartialTranscript

\* processor.go:93-112
Reset ==
    /\ currentTranscript' = EmptyString
    /\ lastTurnOrder' = -1
    /\ turnTranscripts' = {}
    /\ finalTranscripts' = <<>>
    /\ bestPartialTranscript' = EmptyString
    /\ bestPartialConfidence' = 0
    /\ sessionActive' = TRUE
    /\ sessionTerminated' = Drain(sessionTerminated)

\* a send that queues every signal
TrySendQueues(ch, sig) == Append(ch, sig)

\* processor.go:120-123, the non-blocking send on the channel of capacity 1
TrySend(ch, sig) == IF Len(ch) < 1 THEN Append(ch, sig) ELSE ch

\* processor.go:118-124
SignalTermination(sig) ==
    /\ sessionTerminated' = TrySend(sessionTerminated, sig)
    /\ UNCHANGED <<currentTranscript, lastTurnOrder, turnTranscripts, finalTranscripts,
                   sessionActive, bestPartialTranscript, bestPartialConfidence>>

\* processor.go:114-116 with the receive of the caller's select: the wait
\* completes by taking the buffered signal
WaitForTermination ==
    /\ sessionTerminated # <<>>
    /\ sessionTerminated' = Tail(sessionTerminated)
    /\ UNCHANGED <<currentTranscript, lastTurnOrder, turnTranscripts, finalTranscripts,
                   sessionActive, bestPartialTranscript, bestPartialConfidence>>

\* processor.go:172-189, the value ConsumeTranscriptWithFallback returns
ConsumeResult(finals, current, best) ==
    IF Len(finals) > 0 THEN [text |-> current, isFinal |-> TRUE]
    ELSE IF Len(best) > 0 THEN [text |-> best \o <<SP>>, isFinal |-> FALSE]
    ELSE [text |-> EmptyString, isFinal |-> FALSE]

\* ConsumeTranscriptWithFallback without line 198: the final fragments stay
ConsumeKeepsFinals ==
    /\ consumed' = ConsumeResult(finalTranscripts, currentTranscript, bestPartialTranscript)
    /\ sessionActive' = FALSE
    /\ currentTranscript' = EmptyString
    /\ lastTurnOrder' = -1
    /\ turnTranscripts' = {}
    /\ bestPartialTranscript' = EmptyString
    /\ bestPartialConfidence' = 0
    /\ UNCHANGED <<finalTranscripts, sessionTerminated>>

\* processor.go:168-203
ConsumeTranscriptWithFallback ==
    /\ consumed' = ConsumeResult(finalTranscripts, currentTranscript, bestPartialTranscript)
    /\ sessionActive' = FALSE
    /\ currentTranscript' = EmptyString
    /\ lastTurnOrder' = -1
    /\ turnTranscripts' = {}
    /\ finalTranscripts' = <<>>
    /\ bestPartialTranscript' = EmptyString
    /\ bestPartialConfidence' = 0
    /\ UNCHANGED sessionTerminated

\* processor.go:21-28
NewProcessor ==
    /\ currentTranscript = EmptyString
    /\ lastTurnOrder = -1
    /\ turnTranscripts = {}
    /\ finalTranscripts = <<>>
    /\ sessionTerminated = <<>>
    /\ sessionActive = FALSE
    /\ bestPartialTranscript = EmptyString
    /\ bestPartialConfidence = 0

----------------------------------------------------------------------------
(* Client *)

\* the zero time.Time of a Client that never connected (NewClient sets no
\* lastConnectionTime)
ZeroTime == -1

\* one clock tick, 11 minutes
TickMs == 11 * 60 * 1000

\* assemblyai.go:349, 10*time.Minute
TenMinutes == 10 * 60 * 1000

\* recorder: Frames int32 samples become 2 bytes each
FrameBytes == 1024 * 2

ConnIds == 1..MaxConns

\* a handleResponses goroutine that is not in ReadMessage, and one that is
LoopAt(where) == <<where, 0>>
LoopReading(k) == <<"read", k>>

\* the errors a write can return: a close error of the peer's close frame
\* (websocket.IsCloseError), "websocket: close sent" or "use of closed network
\* connection", "connection reset by peer", and any other error
WriteErrors == {"closeFrame", "closeSent", "reset", "other"}

\* what a write of audio on connection k can return.  A write on a
\* connection the peer has left can still succeed locally.
WriteOutcomes(k) ==
    IF connState[k] = "open" THEN {"ok"} ELSE {"ok"} \cup WriteErrors

\* what a write can return where only success matters (ping, Terminate)
PlainWriteOutcomes(k) ==
    IF connState[k] = "open" THEN {"ok"} ELSE {"ok", "other"}

\* the errors after which SendAudio drops the connection (assemblyai.go:147-149)
DropsConnection(err) == err \in {"closeFrame", "closeSent"}

\* assemblyai.go:58-64
NewClient ==
    /\ wsConn = 0
    /\ chunkCount = 0
    /\ lastChunkSize = 0
    /\ connectionHealth = 100
    /\ lastConnectionTime = ZeroTime
    /\ sessionCount = 0
    /\ failedSessions = 0

\* a Connect that keeps the handle it had when the dial fails
ConnectKeepsHandle(dialed) ==
    IF dialed
    THEN /\ nextConn' = nextConn + 1
         /\ connState' = [connState EXCEPT ![nextConn + 1] = "open"]
         /\ wsConn' = nextConn + 1
         /\ lastConnectionTime' = now
         /\ connectionHealth' = 100
         /\ sessionCount' = 0
         /\ failedSessions' = 0
         /\ loopPc' = [loopPc EXCEPT ![nextConn + 1] = LoopAt("top")]
         /\ clientRet' = TRUE
         /\ UNCHANGED <<chunkCount, lastChunkSize>>
    ELSE /\ clientRet' = FALSE
         /\ UNCHANGED <<clientVars, connState, nextConn, loopPc>>

\* assemblyai.go:70-119; dialed tells whether websocket.Dial succeeded.  On
\* failure Dial returns a nil connection, which line 94 stores.
Connect(dialed) ==
    IF dialed
    THEN /\ nextConn' = nextConn + 1
         /\ connState' = [connState EXCEPT ![nextConn + 1] = "open"]
         /\ wsConn' = nextConn + 1
         /\ lastConnectionTime' = now
         /\ connectionHealth' = 100
         /\ sessionCount' = 0
         /\ failedSessions' = 0
         /\ loopPc' = [loopPc EXCEPT ![nextConn + 1] = LoopAt("top")]
         /\ clientRet' = TRUE
         /\ UNCHANGED <<chunkCount, lastChunkSize>>
    ELSE /\ wsConn' = 0
         /\ clientRet' = FALSE
         /\ UNCHANGED <<chunkCount, lastChunkSize, connectionHealth, lastConnectionTime,
                        sessionCount, failedSessions, connState, nextConn, loopPc>>

\* assemblyai.go:134-137
ChunkSizeLogged(count, size, lastSize) ==
    IF count % 50 = 1 \/ size # lastSize THEN size ELSE lastSize

\* assemblyai.go:121-156; outcome is what WriteMessage returns
SendAudio(size, outcome) ==
    IF wsConn = 0
    THEN /\ clientRet' = FALSE
         /\ UNCHANGED <<clientVars, connState, nextConn, loopPc>>
    ELSE /\ chunkCount' = chunkCount + 1
         /\ lastChunkSize' = ChunkSizeLogged(chunkCount + 1, size, lastChunkSize)
         /\ wsConn' = IF DropsConnection(outcome) THEN 0 ELSE wsConn
         /\ clientRet' = (outcome = "ok")
         /\ UNCHANGED <<connectionHealth, lastConnectionTime, sessionCount,
                        failedSessions, connState, nextConn, loopPc>>

\* a Terminate that drops the handle and returns the error when its write fails
TerminateDropsHandle(outcome) ==
    IF wsConn # 0 /\ outcome # "ok"
    THEN /\ wsConn' = 0
         /\ clientRet' = FALSE
         /\ UNCHANGED <<chunkCount, lastChunkSize, connectionHealth, lastConnectionTime,
                        sessionCount, failedSessions, connState, nextConn, loopPc>>
    ELSE /\ clientRet' = TRUE
         /\ UNCHANGED <<clientVars, connState, nextConn, loopPc>>

\* assemblyai.go:158-181: the write's error is logged, nil is returned
Terminate(outcome) ==
    /\ clientRet' = TRUE
    /\ UNCHANGED <<clientVars, connState, nextConn, loopPc>>

\* a Close that resets the chunk counters only when it had a connection to close
CloseKeepsCounters ==
    /\ IF wsConn # 0
       THEN /\ connState' = [connState EXCEPT ![wsConn] = "closed"]
            /\ wsConn' = 0
            /\ chunkCount' = 0
            /\ lastChunkSize' = 0
       ELSE UNCHANGED <<connState, wsConn, chunkCount, lastChunkSize>>
    /\ clientRet' = clientRet
    /\ UNCHANGED <<connectionHealth, lastConnectionTime, sessionCount, failedSessions,
                   nextConn, loopPc>>

\* assemblyai.go:183-210
Close ==
    /\ IF wsConn # 0
       THEN /\ connState' = [connState EXCEPT ![wsConn] = "closed"]
            /\ wsConn' = 0
       ELSE UNCHANGED <<connState, wsConn>>
    /\ chunkCount' = 0
    /\ lastChunkSize' = 0
    /\ clientRet' = clientRet
    /\ UNCHANGED <<connectionHealth, lastConnectionTime, sessionCount, failedSessions,
                   nextConn, loopPc>>

\* an IsConnected that discards the dead handle and leaves the health as it is
IsConnectedKeepsHealth(outcome) ==
    IF wsConn = 0
    THEN /\ clientRet' = FALSE
         /\ UNCHANGED <<clientVars, connState, nextConn, loopPc>>
    ELSE IF outcome # "ok"
    THEN /\ connState' = [connState EXCEPT ![wsConn] = "closed"]
         /\ wsConn' = 0
         /\ clientRet' = FALSE
         /\ UNCHANGED <<chunkCount, lastChunkSize, connectionHealth, lastConnectionTime,
                        sessionCount, failedSessions, nextConn, loopPc>>
    ELSE /\ clientRet' = TRUE
         /\ UNCHANGED <<clientVars, connState, nextConn, loopPc>>

\* an IsConnected that reports the failed ping and keeps the handle
IsConnectedKeepsDead(outcome) ==
    IF wsConn = 0
    THEN /\ clientRet' = FALSE
         /\ UNCHANGED <<clientVars, connState, nextConn, loopPc>>
    ELSE /\ clientRet' = (outcome = "ok")
         /\ connectionHealth' = IF outcome = "ok" THEN connectionHealth ELSE 0
         /\ UNCHANGED <<wsConn, chunkCount, lastChunkSize, lastConnectionTime, sessionCount,
                        failedSessions, connState, nextConn, loopPc>>

\* assemblyai.go:212-234; outcome is what the ping's WriteMessage returns
IsConnected(outcome) ==
    IF wsConn = 0
    THEN /\ clientRet' = FALSE
         /\ UNCHANGED <<clientVars, connState, nextConn, loopPc>>
    ELSE IF outcome # "ok"
    THEN /\ connState' = [connState EXCEPT ![wsConn] = "closed"]
         /\ wsConn' = 0
         /\ connectionHealth' = 0
         /\ clientRet' = FALSE
         /\ UNCHANGED <<chunkCount, lastChunkSize, lastConnectionTime, sessionCount,
                        failedSessions, nextConn, loopPc>>
    ELSE /\ clientRet' = TRUE
         /\ UNCHANGED <<clientVars, connState, nextConn, loopPc>>

\* time.Since(lastConnectionTime) > limit; the zero time is centuries ago
ConnectionOlderThan(limit) ==
    lastConnectionTime = ZeroTime \/ now - lastConnectionTime > limit

\* NeedsRefresh with the failure test off by one (> 3 for >= 3)
NeedsRefreshAfterFour(health, failed, old) ==
    IF health < 20 THEN TRUE
    ELSE IF failed > 3 THEN TRUE
    ELSE IF old /\ health < 60 THEN TRUE
    ELSE FALSE

\* assemblyai.go:337-353, the value ConnectionNeedsRefresh returns
NeedsRefresh(health, failed, old) ==
    IF health < 20 THEN TRUE
    ELSE IF failed >= 3 THEN TRUE
    ELSE IF old /\ health < 60 THEN TRUE
    ELSE FALSE

\* assemblyai.go:333-354
ConnectionNeedsRefresh ==
    /\ clientRet' = NeedsRefresh(connectionHealth, failedSessions,
                                 ConnectionOlderThan(TenMinutes))
    /\ UNCHANGED <<clientVars, connState, nextConn, loopPc>>

\* HealthAfterSuccess without the cap of lines 365-369
HealthAfterSuccessUncapped(health) == health + 10

\* assemblyai.go:364-370
HealthAfterSuccess(health) ==
    IF health < 100
    THEN IF health + 10 > 100 THEN 100 ELSE health + 10
    ELSE health

\* HealthAfterFailure without the floor of lines 382-384
HealthAfterFailureNoFloor(health) == health - 15

\* assemblyai.go:380-384
HealthAfterFailure(health) ==
    IF health - 15 < 0 THEN 0 ELSE health - 15

\* ReportSessionSuccess without line 362: the failure counter is not reset
ReportSessionSuccessKeepsFailures ==
    /\ sessionCount' = sessionCount + 1
    /\ connectionHealth' = HealthAfterSuccess(connectionHealth)
    /\ clientRet' = clientRet
    /\ UNCHANGED <<wsConn, chunkCount, lastChunkSize, lastConnectionTime, failedSessions,
                   connState, nextConn, loopPc>>

\* assemblyai.go:357-371
ReportSessionSuccess ==
    /\ sessionCount' = sessionCount + 1
    /\ failedSessions' = 0
    /\ connectionHealth' = HealthAfterSuccess(connectionHealth)
    /\ clientRet' = clientRet
    /\ UNCHANGED <<wsConn, chunkCount, lastChunkSize, lastConnectionTime,
                   connState, nextConn, loopPc>>

\* assemblyai.go:374-385
ReportSessionFailure ==
    /\ failedSessions' = failedSessions + 1
    /\ connectionHealth' = HealthAfterFailure(connectionHealth)
    /\ clientRet' = clientRet
    /\ UNCHANGED <<wsConn, chunkCount, lastChunkSize, lastConnectionTime, sessionCount,
                   connState, nextConn, loopPc>>

\* the peer closes or resets connection k, or the network drops it
PeerClose(k) ==
    /\ connState[k] = "open"
    /\ connState' = [connState EXCEPT ![k] = "dead"]

\* time passes
Tick ==
    /\ now < MaxTicks * TickMs
    /\ now' = now + TickMs

NetInit ==
    /\ connState = [k \in ConnIds |-> "none"]
    /\ nextConn = 0
    /\ loopPc = [k \in ConnIds |-> LoopAt("none")]
    /\ now = 0

----------------------------------------------------------------------------
(* Recorder *)

\* NewRecorder: silenceThreshold
SilenceThreshold == 150
\* NewRecorder: maxSilenceChunks
MaxSilenceChunks == 20

\* the RMS level of a captured frame: a quiet one and a loud one
FrameLevels == { 50, 400 }
\* the same with a frame exactly at the threshold
GateLevels == { 50, 150, 400 }

\* NewRecorder
NewRecorder ==
    /\ recording = FALSE
    /\ capturing = FALSE
    /\ maxRMS = 0
    /\ silenceChunks = 0
    /\ speechState = "WaitingForSpeech"
    /\ prolongedSilence = FALSE
    /\ frameCount = 0
    /\ pendingFrame = FALSE

\* Recorder.Start; started tells whether PortAudio opened and started the stream
RecorderStart(started) ==
    IF recording
    THEN UNCHANGED recVars
    ELSE /\ maxRMS' = 0
         /\ silenceChunks' = 0
         /\ speechState' = "WaitingForSpeech"
         /\ prolongedSilence' = FALSE
         /\ recording' = started
         /\ capturing' = started
         /\ frameCount' = 0
         /\ pendingFrame' = FALSE

\* Recorder.Stop: returns once the audioStreamLoop goroutine has finished.
\* The goroutine finds stopChan closed at its next test; a chunk it holds
\* between the gate and the send is not sent.
RecorderStop ==
    IF ~recording
    THEN UNCHANGED recVars
    ELSE /\ recording' = FALSE
         /\ capturing' = FALSE
         /\ pendingFrame' = FALSE
         /\ UNCHANGED <<maxRMS, silenceChunks, speechState, prolongedSilence, frameCount>>

\* a gate that takes a chunk for speech only when it is above the threshold
GateStrictlyAbove(rms) ==
    LET silent == rms <= SilenceThreshold
        chunks == IF silent THEN silenceChunks + 1 ELSE 0
        state  == IF ~silent /\ speechState = "WaitingForSpeech"
                  THEN "SpeechDetected" ELSE speechState
    IN  /\ maxRMS' = IF rms > maxRMS THEN rms ELSE maxRMS
        /\ silenceChunks' = chunks
        /\ speechState' = state
        /\ prolongedSilence' =
               IF state = "WaitingForSpeech" /\ chunks >= MaxSilenceChunks
               THEN TRUE ELSE prolongedSilence

\* a gate that goes back to waiting after MaxSilenceChunks quiet chunks
GateFallsBack(rms) ==
    LET silent == rms < SilenceThreshold
        chunks == IF silent THEN silenceChunks + 1 ELSE 0
        state  == IF ~silent THEN "SpeechDetected"
                  ELSE IF chunks >= MaxSilenceChunks THEN "WaitingForSpeech"
                  ELSE speechState
    IN  /\ maxRMS' = IF rms > maxRMS THEN rms ELSE maxRMS
        /\ silenceChunks' = chunks
        /\ speechState' = state
        /\ prolongedSilence' =
               IF state = "WaitingForSpeech" /\ chunks >= MaxSilenceChunks
               THEN TRUE ELSE prolongedSilence

\* a gate that flags MaxSilenceChunks quiet chunks in a row in either state
GateFlagsAnySilence(rms) ==
    LET silent == rms < SilenceThreshold
        chunks == IF silent THEN silenceChunks + 1 ELSE 0
        state  == IF ~silent /\ speechState = "WaitingForSpeech"
                  THEN "SpeechDetected" ELSE speechState
    IN  /\ maxRMS' = IF rms > maxRMS THEN rms ELSE maxRMS
        /\ silenceChunks' = chunks
        /\ speechState' = state
        /\ prolongedSilence' = IF chunks >= MaxSilenceChunks THEN TRUE ELSE prolongedSilence

\* audioStreamLoop, the gate: what one chunk of RMS level rms does to the
\* loudness maximum, the silence counter, the speech state and the flag
GateOnFrame(rms) ==
    LET silent == rms < SilenceThreshold
        chunks == IF silent THEN silenceChunks + 1 ELSE 0
        state  == IF ~silent /\ speechState = "WaitingForSpeech"
                  THEN "SpeechDetected" ELSE speechState
    IN  /\ maxRMS' = IF rms > maxRMS THEN rms ELSE maxRMS
        /\ silenceChunks' = chunks
        /\ speechState' = state
        /\ prolongedSilence' =
               IF state = "WaitingForSpeech" /\ chunks >= MaxSilenceChunks
               THEN TRUE ELSE prolongedSilence

\* audioStreamLoop: shouldSendAudio, read after the gate has seen the chunk
ShouldSendAudio(state, prolonged) == state = "SpeechDetected" \/ ~prolonged

\* audioStreamLoop: the errors of the audio callback after which the loop returns
LoopStopsOn(err) == err \in {"closeSent", "reset"}

----------------------------------------------------------------------------
(* The transcription service and the transport *)

\* what the service transcribes from the audio of recording n: one word per
\* recording, so that a transcript tells which recording its text came from
SessionLetters == <<"a", "b", "c", "d", "e", "f">>
SessionWord(n) == << SessionLetters[n] >>

\* the messages handleResponses tells apart (assemblyai.go:275-324); sess
\* names the Terminate request a Termination message answers and is not
\* part of the message the client reads
BeginMsg == [type |-> "Begin"]
TurnMsg(t, fin, conf) ==
    [type |-> "Turn", transcript |-> t, turn_is_formatted |-> fin, end_of_turn |-> fin,
     end_of_turn_confidence |-> conf]
TerminationMsg(n) == [type |-> "Termination", sess |-> n]

SvcInit ==
    /\ inbox = [k \in ConnIds |-> <<>>]
    /\ heard = [k \in ConnIds |-> {}]
    /\ termReq = [k \in ConnIds |-> {}]
    /\ turnsSent = 0

\* the service sends a turn message, partial or formatted, for audio it heard
ServiceTurn(k, n, fin, conf) ==
    /\ connState[k] = "open"
    /\ n \in heard[k]
    /\ turnsSent < MaxTurns
    /\ inbox' = [inbox EXCEPT ![k] = Append(@, TurnMsg(SessionWord(n), fin, conf))]
    /\ turnsSent' = turnsSent + 1
    /\ UNCHANGED <<heard, termReq>>

\* the service confirms a Terminate request
ServiceTermination(k, n) ==
    /\ connState[k] = "open"
    /\ n \in termReq[k]
    /\ inbox' = [inbox EXCEPT ![k] = Append(@, TerminationMsg(n))]
    /\ termReq' = [termReq EXCEPT ![k] = @ \ {n}]
    /\ UNCHANGED <<heard, turnsSent>>

----------------------------------------------------------------------------
(* Daemon *)

\* NewDaemon: quickPressThreshold, 800 ms
QuickPressThreshold == 800

\* a skip level one above the silence threshold of the gate
LowAudioAboveThreshold == SilenceThreshold + 1

\* OnRelease: the loudness below which a recording is skipped, 150.0
LowAudioRMS == 150

\* one clock tick while the key is held, ms
HoldTickMs == 4 * 100

\* NewSimpleManager (part_003:31-39), with the key up and Run not started
NewSimpleManager ==
    /\ keyDown = FALSE
    /\ wasPressed = FALSE
    /\ triggered = <<>>
    /\ released = <<>>
    /\ done = <<>>
    /\ running = FALSE
    /\ polling = FALSE
    /\ listenPc = "none"
    /\ lastHandler = "none"
    /\ cleanupPc = "none"

\* the zero sync.Mutex of NewClient, no call in flight
LockInit ==
    /\ wsMutex = "free"
    /\ connectPc = "none"
    /\ lockedOp = "none"

\* NewDaemon: the hotkey goroutine has not started, pressTime is the zero time
DaemonInit ==
    /\ pc = "init"
    /\ pressTime = ZeroTime
    /\ NewSimpleManager
    /\ LockInit

GateObsInit ==
    /\ frameScenario = 0
    /\ anyLoud = FALSE
    /\ anyQuiet = FALSE
    /\ lastFrame = "none"

SessInit ==
    /\ session = 0
    /\ presses = 0
    /\ waitSignal = 0
    /\ releaseOutcome = "none"
    /\ ignored = FALSE
    /\ refreshed = FALSE
    /\ pasted = <<>>
    /\ reported = <<>>

SysInit ==
    /\ NewRecorder
    /\ GateObsInit
    /\ DaemonInit
    /\ SvcInit
    /\ SessInit

----------------------------------------------------------------------------
(* The assembler alone: every sequence of calls on one Processor *)

Msg(t, turn, fin, conf) == [text |-> t, turn |-> turn, isFinal |-> fin, conf |-> conf]

\* the messages of the session a call acts on: a consumed session is over
HistBase == IF lastCall = "Consume" THEN <<>> ELSE hist

\* everything but the processor and its observation
nonProcVars == <<clientVars, netVars, clientObsVars, sysVars>>

\* a call that wrote nothing
NoWrite == [frame |-> "none", err |-> "none"]

\* what a call writes that sends one frame when the client holds a connection
Wrote(frame, outcome) ==
    IF wsConn = 0 THEN NoWrite ELSE [frame |-> frame, err |-> outcome]

ClientObsInit ==
    /\ clientRet = FALSE
    /\ scenario = -1
    /\ failRun = 0
    /\ lastWrite = NoWrite

ProcObsInit ==
    /\ hist = <<>>
    /\ consumed = NoResult
    /\ lastCall = "NewProcessor"
    /\ freshReset = FALSE

ProcInit ==
    /\ NewProcessor
    /\ ProcObsInit
    /\ NewClient
    /\ NetInit
    /\ ClientObsInit
    /\ SysInit

CallProcessTranscript ==
    \E t \in Texts, turn \in TurnOrders, fin \in BOOLEAN, eot \in BOOLEAN,
       conf \in Confidences :
        /\ Len(HistBase) < MaxHist
        /\ ProcessTranscript(t, turn, fin, eot, conf)
        /\ hist' = Append(HistBase, Msg(t, turn, fin, conf))
        /\ lastCall' = "ProcessTranscript"
        /\ freshReset' = FALSE
        /\ consumed' = NoResult
        /\ UNCHANGED nonProcVars

CallReset ==
    /\ Reset
    /\ hist' = <<>>
    /\ lastCall' = "Reset"
    /\ freshReset' = TRUE
    /\ consumed' = NoResult
    /\ UNCHANGED nonProcVars

CallSignalTermination ==
    /\ SignalTermination(TRUE)
    /\ hist' = HistBase
    /\ lastCall' = "SignalTermination"
    /\ consumed' = NoResult
    /\ UNCHANGED <<freshReset, nonProcVars>>

CallWaitForTermination ==
    /\ WaitForTermination
    /\ hist' = HistBase
    /\ lastCall' = "WaitForTermination"
    /\ consumed' = NoResult
    /\ UNCHANGED <<freshReset, nonProcVars>>

CallConsume ==
    /\ ConsumeTranscriptWithFallback
    /\ hist' = HistBase
    /\ lastCall' = "Consume"
    /\ UNCHANGED <<freshReset, nonProcVars>>

ProcNext ==
    \/ CallProcessTranscript
    \/ CallReset
    \/ CallSignalTermination
    \/ CallWaitForTermination
    \/ CallConsume

SpecProc == ProcInit /\ [][ProcNext]_vars

----------------------------------------------------------------------------
(* The client alone: every sequence of calls on one Client, over a transport
   that can fail at any time *)

\* everything but the client, the transport and their observation
nonClientVars == <<procVars, hist, consumed, freshReset, sysVars>>

\* the outcome of a write the client attempts now
WriteNow == IF wsConn = 0 THEN {"ok"} ELSE WriteOutcomes(wsConn)
PlainWriteNow == IF wsConn = 0 THEN {"ok"} ELSE PlainWriteOutcomes(wsConn)

\* success, success, failure after a fresh Connect, anything else leaves it
ScenarioAfter(call) ==
    IF call = "ReportSessionSuccess" /\ scenario \in {0, 1} THEN scenario + 1
    ELSE IF call = "ReportSessionFailure" /\ scenario = 2 THEN 3
    ELSE -1

ClientInit ==
    /\ NewProcessor
    /\ ProcObsInit
    /\ NewClient
    /\ NetInit
    /\ ClientObsInit
    /\ SysInit

CallConnect ==
    \E dialed \in BOOLEAN :
        /\ dialed => nextConn < MaxConns
        /\ Connect(dialed)
        /\ lastCall' = "Connect"
        /\ scenario' = IF dialed THEN 0 ELSE -1
        /\ failRun' = IF dialed THEN 0 ELSE failRun
        /\ lastWrite' = NoWrite
        /\ UNCHANGED <<now, nonClientVars>>

CallSendAudio ==
    \E outcome \in WriteNow :
        /\ chunkCount < MaxChunks
        /\ SendAudio(FrameBytes, outcome)
        /\ lastCall' = "SendAudio"
        /\ lastWrite' = Wrote("audio", outcome)
        /\ scenario' = -1
        /\ UNCHANGED failRun
        /\ UNCHANGED <<now, nonClientVars>>

CallTerminate ==
    \E outcome \in PlainWriteNow :
        /\ Terminate(outcome)
        /\ lastCall' = "Terminate"
        /\ lastWrite' = Wrote("Terminate", outcome)
        /\ scenario' = -1
        /\ UNCHANGED failRun
        /\ UNCHANGED <<now, nonClientVars>>

CallClose ==
    \E outcome \in PlainWriteNow :
        /\ Close
        /\ lastCall' = "Close"
        /\ lastWrite' = Wrote("close", outcome)
        /\ scenario' = -1
        /\ UNCHANGED failRun
        /\ UNCHANGED <<now, nonClientVars>>

CallIsConnected ==
    \E outcome \in PlainWriteNow :
        /\ IsConnected(outcome)
        /\ lastCall' = "IsConnected"
        /\ lastWrite' = Wrote("ping", outcome)
        /\ scenario' = -1
        /\ UNCHANGED failRun
        /\ UNCHANGED <<now, nonClientVars>>

CallConnectionNeedsRefresh ==
    /\ ConnectionNeedsRefresh
    /\ lastCall' = "ConnectionNeedsRefresh"
    /\ lastWrite' = NoWrite
    /\ scenario' = -1
    /\ UNCHANGED failRun
    /\ UNCHANGED <<now, nonClientVars>>

CallReportSessionSuccess ==
    /\ sessionCount < MaxSessionCount
    /\ ReportSessionSuccess
    /\ lastCall' = "ReportSessionSuccess"
    /\ lastWrite' = NoWrite
    /\ scenario' = ScenarioAfter("ReportSessionSuccess")
    /\ failRun' = 0
    /\ UNCHANGED <<now, nonClientVars>>

CallReportSessionFailure ==
    /\ failedSessions < MaxFailed
    /\ ReportSessionFailure
    /\ lastCall' = "ReportSessionFailure"
    /\ lastWrite' = NoWrite
    /\ scenario' = ScenarioAfter("ReportSessionFailure")
    /\ failRun' = failRun + 1
    /\ UNCHANGED <<now, nonClientVars>>

\* the peer leaves the connection the client holds
EnvPeerClose ==
    \E k \in ConnIds :
        /\ k = wsConn
        /\ PeerClose(k)
        /\ lastCall' = "PeerClose"
        /\ UNCHANGED <<clientVars, nextConn, loopPc, now, clientObsVars, nonClientVars>>

EnvTick ==
    /\ Tick
    /\ lastCall' = "Tick"
    /\ UNCHANGED <<clientVars, connState, nextConn, loopPc, clientObsVars, nonClientVars>>

ClientNext ==
    \/ CallConnect
    \/ CallSendAudio
    \/ CallTerminate
    \/ CallClose
    \/ CallIsConnected
    \/ CallConnectionNeedsRefresh
    \/ CallReportSessionSuccess
    \/ CallReportSessionFailure
    \/ EnvPeerClose
    \/ EnvTick

SpecClient == ClientInit /\ [][ClientNext]_vars

----------------------------------------------------------------------------
(* The daemon as a whole: the hotkey goroutine running OnPress and OnRelease,
   the audioStreamLoop goroutine of the recorder, one handleResponses
   goroutine per connection dialed, and the transcription service behind a
   transport that delays and drops *)

\* what the calls on the client constrain
clientSide == <<clientVars, connState, nextConn, loopPc, clientRet>>
\* the observation of the two components taken alone
aloneObs == <<hist, lastCall, freshReset, scenario, failRun, lastWrite>>

SysSpecInit ==
    /\ NewProcessor
    /\ ProcObsInit
    /\ NewClient
    /\ NetInit
    /\ ClientObsInit
    /\ SysInit

\* the service greets a connection just dialed
Greeted(dialed) ==
    IF dialed THEN [inbox EXCEPT ![nextConn + 1] = <<BeginMsg>>] ELSE inbox

\* Daemon.Initialize: the first Connect; the program exits if it fails
Initialize ==
    /\ pc = "init"
    /\ \E dialed \in BOOLEAN :
        /\ Connect(dialed)
        /\ inbox' = Greeted(dialed)
        /\ pc' = IF dialed THEN "idle" ELSE "exit"
    /\ UNCHANGED <<procVars, consumed, aloneObs, now, recVars, gateObs, pressTime, hotkeyVars, lockVars, heard, termReq,
                   turnsSent, sessVars>>

\* OnPressAt without the IsRecording guard
OnPressUnguarded(at) ==
    /\ pc = at
    /\ presses < MaxPresses
    /\ presses' = presses + 1
    /\ ignored' = (ignored \/ recording)
    /\ refreshed' = FALSE
    /\ ConnectionNeedsRefresh
    /\ pc' = IF clientRet' THEN "p_close" ELSE "p_isconn"
    /\ UNCHANGED <<procVars, consumed, aloneObs, now, recVars, gateObs, pressTime, hotkeyVars, lockVars, svcVars,
                   session, waitSignal, releaseOutcome, pasted, reported>>

\* OnPress up to the refresh test, called when the hotkey goroutine is at `at`
OnPressAt(at) ==
    /\ pc = at
    /\ IF recording
       THEN /\ pc' = "held"
            /\ ignored' = TRUE
            /\ UNCHANGED <<clientSide, presses>>
       ELSE /\ presses < MaxPresses
            /\ presses' = presses + 1
            /\ ConnectionNeedsRefresh
            /\ pc' = IF clientRet' THEN "p_close" ELSE "p_isconn"
            /\ UNCHANGED ignored
    /\ refreshed' = IF recording THEN refreshed ELSE FALSE
    /\ pasted' = IF recording THEN pasted ELSE <<>>
    /\ reported' = IF recording THEN reported ELSE <<>>
    /\ UNCHANGED <<procVars, consumed, aloneObs, now, recVars, gateObs, pressTime, hotkeyVars, lockVars, svcVars,
                   session, waitSignal, releaseOutcome>>

\* Listen: a press is handled when no press is being handled
OnPressRefresh == OnPressAt("idle")

\* a forced refresh that leaves the connection as it is
OnPressCloseSkipped ==
    /\ pc = "p_close"
    /\ refreshed' = TRUE
    /\ pc' = "p_isconn"
    /\ UNCHANGED <<procVars, consumed, aloneObs, clientSide, now, recVars, gateObs, pressTime, hotkeyVars, lockVars,
                   svcVars, session, presses, waitSignal, releaseOutcome, ignored, pasted,
                   reported>>

\* OnPress: the forced refresh closes the connection
OnPressClose ==
    /\ pc = "p_close"
    /\ Close
    /\ refreshed' = TRUE
    /\ pc' = "p_isconn"
    /\ UNCHANGED <<procVars, consumed, aloneObs, now, recVars, gateObs, pressTime, hotkeyVars, lockVars, svcVars,
                   session, presses, waitSignal, releaseOutcome, ignored, pasted, reported>>

\* OnPress: the ping
OnPressIsConnected ==
    /\ pc = "p_isconn"
    /\ \E outcome \in PlainWriteNow : IsConnected(outcome)
    /\ pc' = IF clientRet' THEN "p_start" ELSE "p_connect"
    /\ UNCHANGED <<procVars, consumed, aloneObs, now, recVars, gateObs, pressTime, hotkeyVars, lockVars, svcVars, sessVars>>

\* OnPress: the reconnect
OnPressConnect ==
    /\ pc = "p_connect"
    /\ \E dialed \in BOOLEAN :
        /\ dialed => nextConn < MaxConns
        /\ Connect(dialed)
        /\ inbox' = Greeted(dialed)
        /\ pc' = IF dialed THEN "p_start" ELSE "p_fail"
    /\ UNCHANGED <<procVars, consumed, aloneObs, now, recVars, gateObs, pressTime, hotkeyVars, lockVars, heard, termReq,
                   turnsSent, sessVars>>

\* a press handler that reports the failed reconnect and records all the same
OnPressFailGoesOn ==
    /\ pc = "p_fail"
    /\ ReportSessionFailure
    /\ reported' = Append(reported, "failure")
    /\ pc' = "p_start"
    /\ UNCHANGED <<procVars, consumed, aloneObs, now, recVars, gateObs, pressTime, hotkeyVars, lockVars, svcVars,
                   session, presses, waitSignal, releaseOutcome, ignored, refreshed, pasted>>

\* OnPress: the reconnect failed; the release that follows finds no recording
OnPressFail ==
    /\ pc = "p_fail"
    /\ ReportSessionFailure
    /\ reported' = Append(reported, "failure")
    /\ pc' = "held"
    /\ UNCHANGED <<procVars, consumed, aloneObs, now, recVars, gateObs, pressTime, hotkeyVars, lockVars, svcVars,
                   session, presses, waitSignal, releaseOutcome, ignored, refreshed, pasted>>

\* OnPress: Reset, the press time and recorder.Start
OnPressStart ==
    /\ pc = "p_start"
    /\ Reset
    /\ pressTime' = now
    /\ \E started \in BOOLEAN :
        /\ RecorderStart(started)
        /\ session' = IF started THEN session + 1 ELSE session
    /\ IF recording
       THEN UNCHANGED gateObs
       ELSE /\ frameScenario' = 0
            /\ anyLoud' = FALSE
            /\ anyQuiet' = FALSE
            /\ lastFrame' = "none"
    /\ waitSignal' = 0
    /\ consumed' = NoResult
    /\ releaseOutcome' = "none"
    /\ pc' = "held"
    /\ ignored' = FALSE
    /\ UNCHANGED <<aloneObs, clientSide, now, hotkeyVars, lockVars, svcVars, presses, refreshed, pasted,
                   reported>>

\* the key is held for another HoldTickMs
HoldTick ==
    /\ pc = "held"
    /\ recording
    /\ now - pressTime < MaxHoldTicks * HoldTickMs
    /\ now' = now + HoldTickMs
    /\ UNCHANGED <<procVars, obsVars, clientVars, connState, nextConn, loopPc,
                   clientObsVars, sysVars>>

\* the service has heard the audio of a chunk written on an open connection
HeardAfter(err) ==
    IF wsConn # 0 /\ err = "ok" /\ connState[wsConn] = "open"
    THEN [heard EXCEPT ![wsConn] = @ \cup {session}]
    ELSE heard

\* a session of five frames, the third one loud
ScenarioFrames == <<50, 50, 400, 50, 50>>

\* frameScenario once the frame of level rms is read
ScenarioAfterFrame(rms) ==
    IF /\ frameScenario = frameCount
       /\ frameCount < Len(ScenarioFrames)
       /\ rms = ScenarioFrames[frameCount + 1]
    THEN frameScenario + 1 ELSE -1

\* the first half of an iteration of audioStreamLoop: a chunk is read and goes
\* through the gate; a recording has at most limit chunks, of these levels
CaptureChunk(limit, levels) ==
    /\ capturing
    /\ ~pendingFrame
    /\ frameCount < limit
    /\ frameCount' = frameCount + 1
    /\ pendingFrame' = TRUE
    /\ \E rms \in levels :
        /\ GateOnFrame(rms)
        /\ frameScenario' = ScenarioAfterFrame(rms)
        /\ anyLoud' = (anyLoud \/ rms >= SilenceThreshold)
        /\ anyQuiet' = (anyQuiet \/ rms < SilenceThreshold)
    /\ lastFrame' = "read"
    /\ UNCHANGED <<procVars, consumed, aloneObs, clientSide, now, recording, capturing,
                   daemonVars, svcVars, sessVars>>

CaptureFrame == CaptureChunk(MaxFrames, FrameLevels)

\* ForwardFrame sending on ~prolongedSilence alone
ForwardUnlessProlonged ==
    /\ capturing
    /\ pendingFrame
    /\ pendingFrame' = FALSE
    /\ IF ~prolongedSilence
       THEN /\ \E err \in WriteNow :
                    /\ SendAudio(FrameBytes, err)
                    /\ heard' = HeardAfter(err)
                    /\ capturing' = ~(wsConn # 0 /\ LoopStopsOn(err))
            /\ lastFrame' = "forwarded"
       ELSE /\ lastFrame' = "withheld"
            /\ UNCHANGED <<clientSide, heard, capturing>>
    /\ UNCHANGED <<procVars, consumed, aloneObs, now, recording, maxRMS, silenceChunks,
                   speechState, prolongedSilence, frameCount, frameScenario, anyLoud, anyQuiet,
                   daemonVars, inbox, termReq, turnsSent, sessVars>>

\* the second half: stopChan was not closed meanwhile, and the chunk goes to
\* SendAudio if shouldSendAudio
ForwardFrame ==
    /\ capturing
    /\ pendingFrame
    /\ pendingFrame' = FALSE
    /\ IF ShouldSendAudio(speechState, prolongedSilence)
       THEN /\ \E err \in WriteNow :
                    /\ SendAudio(FrameBytes, err)
                    /\ heard' = HeardAfter(err)
                    /\ capturing' = ~(wsConn # 0 /\ LoopStopsOn(err))
            /\ lastFrame' = "forwarded"
       ELSE /\ lastFrame' = "withheld"
            /\ UNCHANGED <<clientSide, heard, capturing>>
    /\ UNCHANGED <<procVars, consumed, aloneObs, now, recording, maxRMS, silenceChunks,
                   speechState, prolongedSilence, frameCount, frameScenario, anyLoud, anyQuiet,
                   daemonVars, inbox, termReq, turnsSent, sessVars>>

\* OnReleaseAt with the quick-press layer applied to quiet recordings only
OnReleaseLoudProceeds(at) ==
    /\ pc = at
    /\ IF ~recording
       THEN /\ releaseOutcome' = "NotRecording"
            /\ pc' = "idle"
            /\ UNCHANGED <<procVars, recVars, lastFrame>>
       ELSE /\ RecorderStop
            /\ lastFrame' = IF pendingFrame THEN "dropped" ELSE lastFrame
            /\ IF now - pressTime < QuickPressThreshold /\ maxRMS < LowAudioRMS
               THEN /\ releaseOutcome' = "TooShort"
                    /\ pc' = "idle"
                    /\ UNCHANGED procVars
               ELSE IF maxRMS < LowAudioRMS
               THEN /\ releaseOutcome' = "Silent"
                    /\ pc' = "idle"
                    /\ Reset
               ELSE /\ releaseOutcome' = "Proceed"
                    /\ pc' = "r_term"
                    /\ UNCHANGED procVars
    /\ UNCHANGED <<consumed, aloneObs, clientSide, now, frameScenario, anyLoud, anyQuiet, pressTime, hotkeyVars, lockVars,
                   svcVars, session, presses, waitSignal, ignored, refreshed, pasted, reported>>

\* OnReleaseAt reporting a silent recording as a failed session
OnReleaseSilentReported(at) ==
    /\ pc = at
    /\ IF ~recording
       THEN /\ releaseOutcome' = "NotRecording"
            /\ pc' = "idle"
            /\ UNCHANGED <<procVars, recVars, lastFrame, clientSide, reported>>
       ELSE /\ RecorderStop
            /\ lastFrame' = IF pendingFrame THEN "dropped" ELSE lastFrame
            /\ IF now - pressTime < QuickPressThreshold
               THEN /\ releaseOutcome' = "TooShort"
                    /\ pc' = "idle"
                    /\ UNCHANGED <<procVars, clientSide, reported>>
               ELSE IF maxRMS < LowAudioRMS
               THEN /\ releaseOutcome' = "Silent"
                    /\ pc' = "idle"
                    /\ Reset
                    /\ ReportSessionFailure
                    /\ reported' = Append(reported, "failure")
               ELSE /\ releaseOutcome' = "Proceed"
                    /\ pc' = "r_term"
                    /\ UNCHANGED <<procVars, clientSide, reported>>
    /\ UNCHANGED <<consumed, aloneObs, now, frameScenario, anyLoud, anyQuiet, pressTime, hotkeyVars, lockVars,
                   svcVars, session, presses, waitSignal, ignored, refreshed, pasted>>

\* OnRelease up to the two layers that skip the transcription, called when
\* the hotkey goroutine is at `at`
OnReleaseAt(at) ==
    /\ pc = at
    /\ IF ~recording
       THEN /\ releaseOutcome' = "NotRecording"
            /\ pc' = "idle"
            /\ UNCHANGED <<procVars, recVars, lastFrame>>
       ELSE /\ RecorderStop
            /\ lastFrame' = IF pendingFrame THEN "dropped" ELSE lastFrame
            /\ IF now - pressTime < QuickPressThreshold
               THEN /\ releaseOutcome' = "TooShort"
                    /\ pc' = "idle"
                    /\ UNCHANGED procVars
               ELSE IF maxRMS < LowAudioRMS
               THEN /\ releaseOutcome' = "Silent"
                    /\ pc' = "idle"
                    /\ Reset
               ELSE /\ releaseOutcome' = "Proceed"
                    /\ pc' = "r_term"
                    /\ UNCHANGED procVars
    /\ UNCHANGED <<consumed, aloneObs, clientSide, now, frameScenario, anyLoud, anyQuiet, pressTime, hotkeyVars, lockVars,
                   svcVars, session, presses, waitSignal, ignored, refreshed, pasted, reported>>

\* Listen: the release that follows a press
OnRelease == OnReleaseAt("held")

\* the Terminate request reaches the service if the write went out on an
\* open connection
RequestedAfter(err) ==
    IF wsConn # 0 /\ err = "ok" /\ connState[wsConn] = "open"
    THEN [termReq EXCEPT ![wsConn] = @ \cup {session}]
    ELSE termReq

\* OnRelease: Terminate
OnReleaseTerminate ==
    /\ pc = "r_term"
    /\ pc' = "r_wait"
    /\ \E err \in PlainWriteNow :
        /\ Terminate(err)
        /\ termReq' = RequestedAfter(err)
    /\ UNCHANGED <<procVars, consumed, aloneObs, now, recVars, gateObs, pressTime, hotkeyVars, lockVars, inbox, heard,
                   turnsSent, sessVars>>

\* OnRelease: the select completes on the termination channel
OnReleaseWaitSignal ==
    /\ pc = "r_wait"
    /\ WaitForTermination
    /\ waitSignal' = Head(sessionTerminated)
    /\ pc' = "r_consume"
    /\ UNCHANGED <<consumed, aloneObs, clientSide, now, recVars, gateObs, pressTime, hotkeyVars, lockVars, svcVars,
                   session, presses, releaseOutcome, ignored, refreshed, pasted, reported>>

\* a wait on the termination channel alone, without the timer
OnReleaseWaitNoTimer == OnReleaseWaitSignal

\* OnRelease: the select completes on the timer; no signal came within the second
OnReleaseWaitTimeout ==
    /\ pc = "r_wait"
    /\ sessionTerminated = <<>>
    /\ waitSignal' = 0
    /\ pc' = "r_consume"
    /\ UNCHANGED <<procVars, consumed, aloneObs, clientSide, now, recVars, gateObs, pressTime, hotkeyVars, lockVars,
                   svcVars, session, presses, releaseOutcome, ignored, refreshed, pasted, reported>>

\* OnRelease: the transcript is consumed
OnReleaseConsume ==
    /\ pc = "r_consume"
    /\ ConsumeTranscriptWithFallback
    /\ pc' = "r_reset"
    /\ UNCHANGED <<aloneObs, clientSide, now, recVars, gateObs, pressTime, hotkeyVars, lockVars, svcVars, sessVars>>

\* OnRelease: the Reset that follows the consumption
OnReleaseReset ==
    /\ pc = "r_reset"
    /\ Reset
    /\ pc' = "r_report"
    /\ UNCHANGED <<consumed, aloneObs, clientSide, now, recVars, gateObs, pressTime, hotkeyVars, lockVars, svcVars,
                   sessVars>>

\* OnReleaseReport reporting a failed paste as a failed session
OnReleaseReportPasteAsFailure ==
    /\ pc = "r_report"
    /\ IF consumed.text # EmptyString
       THEN /\ pasted' = Append(pasted, consumed.text)
            /\ \E pasteOk \in BOOLEAN :
                IF pasteOk
                THEN /\ ReportSessionSuccess
                     /\ reported' = Append(reported, "success")
                     /\ releaseOutcome' = "Pasted"
                ELSE /\ ReportSessionFailure
                     /\ reported' = Append(reported, "failure")
                     /\ releaseOutcome' = "PasteFailed"
       ELSE /\ ReportSessionFailure
            /\ reported' = Append(reported, "failure")
            /\ releaseOutcome' = "NoTranscript"
            /\ UNCHANGED pasted
    /\ pc' = "idle"
    /\ UNCHANGED <<procVars, consumed, aloneObs, now, recVars, gateObs, pressTime, hotkeyVars, lockVars, svcVars, session,
                   presses, waitSignal, ignored, refreshed>>

\* OnReleaseReport making no report on an empty transcript
OnReleaseReportEmptyUnreported ==
    /\ pc = "r_report"
    /\ IF consumed.text # EmptyString
       THEN /\ pasted' = Append(pasted, consumed.text)
            /\ \E pasteOk \in BOOLEAN :
                IF pasteOk
                THEN /\ ReportSessionSuccess
                     /\ reported' = Append(reported, "success")
                     /\ releaseOutcome' = "Pasted"
                ELSE /\ releaseOutcome' = "PasteFailed"
                     /\ UNCHANGED <<clientSide, reported>>
       ELSE /\ releaseOutcome' = "NoTranscript"
            /\ UNCHANGED <<clientSide, reported, pasted>>
    /\ pc' = "idle"
    /\ UNCHANGED <<procVars, consumed, aloneObs, now, recVars, gateObs, pressTime, hotkeyVars, lockVars, svcVars, session,
                   presses, waitSignal, ignored, refreshed>>

\* OnRelease: the paste and the report on the session
OnReleaseReport ==
    /\ pc = "r_report"
    /\ IF consumed.text # EmptyString
       THEN /\ pasted' = Append(pasted, consumed.text)
            /\ \E pasteOk \in BOOLEAN :
                IF pasteOk
                THEN /\ ReportSessionSuccess
                     /\ reported' = Append(reported, "success")
                     /\ releaseOutcome' = "Pasted"
                ELSE /\ releaseOutcome' = "PasteFailed"
                     /\ UNCHANGED <<clientSide, reported>>
       ELSE /\ ReportSessionFailure
            /\ reported' = Append(reported, "failure")
            /\ releaseOutcome' = "NoTranscript"
            /\ UNCHANGED pasted
    /\ pc' = "idle"
    /\ UNCHANGED <<procVars, consumed, aloneObs, now, recVars, gateObs, pressTime, hotkeyVars, lockVars, svcVars, session,
                   presses, waitSignal, ignored, refreshed>>

\* handleResponses: the top of the loop reads c.wsConn
LoopTop(l) ==
    /\ loopPc[l] = LoopAt("top")
    /\ loopPc' = [loopPc EXCEPT ![l] = IF wsConn = 0 THEN LoopAt("done")
                                                     ELSE LoopReading(wsConn)]
    /\ UNCHANGED <<procVars, obsVars, clientVars, connState, nextConn, now, clientObsVars,
                   sysVars>>

\* handleResponses: the switch on the type of message m
HandleMessage(m) ==
    IF m.type = "Turn" /\ m.transcript # EmptyString
    THEN ProcessTranscript(m.transcript, 0, m.turn_is_formatted, m.end_of_turn,
                           m.end_of_turn_confidence)
    ELSE IF m.type = "Termination"
    THEN SignalTermination(m.sess)
    ELSE UNCHANGED procVars

\* handleResponses: ReadMessage returns a message, which is handled
LoopRecv(l) ==
    /\ loopPc[l][1] = "read"
    /\ connState[loopPc[l][2]] # "closed"
    /\ inbox[loopPc[l][2]] # <<>>
    /\ HandleMessage(Head(inbox[loopPc[l][2]]))
    /\ inbox' = [inbox EXCEPT ![loopPc[l][2]] = Tail(@)]
    /\ loopPc' = [loopPc EXCEPT ![l] = LoopAt("top")]
    /\ UNCHANGED <<obsVars, clientVars, connState, nextConn, now, clientObsVars, recVars, gateObs,
                   daemonVars, heard, termReq, turnsSent, sessVars>>

\* handleResponses: ReadMessage returns an error, the goroutine ends
LoopErr(l) ==
    /\ loopPc[l][1] = "read"
    /\ \/ connState[loopPc[l][2]] = "closed"
       \/ connState[loopPc[l][2]] = "dead" /\ inbox[loopPc[l][2]] = <<>>
    /\ loopPc' = [loopPc EXCEPT ![l] = LoopAt("done")]
    /\ UNCHANGED <<procVars, obsVars, clientVars, connState, nextConn, now, clientObsVars,
                   sysVars>>

SvcTurn ==
    \E k \in ConnIds, n \in 1..MaxPresses, fin \in BOOLEAN, conf \in Confidences :
        /\ ServiceTurn(k, n, fin, conf)
        /\ UNCHANGED <<procVars, obsVars, clientVars, netVars, clientObsVars, recVars, gateObs,
                       daemonVars, sessVars>>

SvcTermination ==
    \E k \in ConnIds, n \in 1..MaxPresses :
        /\ ServiceTermination(k, n)
        /\ UNCHANGED <<procVars, obsVars, clientVars, netVars, clientObsVars, recVars, gateObs,
                       daemonVars, sessVars>>

SvcPeerClose ==
    \E k \in ConnIds :
        /\ PeerClose(k)
        /\ UNCHANGED <<procVars, obsVars, clientVars, nextConn, loopPc, now, clientObsVars,
                       sysVars>>

Next ==
    \/ Initialize
    \/ OnPressRefresh
    \/ OnPressClose
    \/ OnPressIsConnected
    \/ OnPressConnect
    \/ OnPressFail
    \/ OnPressStart
    \/ HoldTick
    \/ CaptureFrame
    \/ ForwardFrame
    \/ OnRelease
    \/ OnReleaseTerminate
    \/ OnReleaseWaitSignal
    \/ OnReleaseWaitTimeout
    \/ OnReleaseConsume
    \/ OnReleaseReset
    \/ OnReleaseReport
    \/ \E l \in ConnIds : LoopTop(l)
    \/ \E l \in ConnIds : LoopRecv(l)
    \/ \E l \in ConnIds : LoopErr(l)
    \/ SvcTurn
    \/ SvcTermination
    \/ SvcPeerClose

Spec == SysSpecInit /\ [][Next]_vars

\* OnRelease runs in the goroutine of the hotkey listener and none of its
\* calls waits for another goroutine but the select, which the timer ends:
\* a handler that has started goes on to its next step
ReleaseProgress ==
    /\ WF_pc(OnReleaseTerminate)
    /\ WF_pc(OnReleaseWaitSignal \/ OnReleaseWaitTimeout)
    /\ WF_pc(OnReleaseConsume)
    /\ WF_pc(OnReleaseReset)
    /\ WF_pc(OnReleaseReport)

\* the whole daemon, with a release handler that keeps running; nothing is
\* assumed of the service, the transport and the other goroutines
SpecLive == SysSpecInit /\ [][Next]_vars /\ ReleaseProgress

----------------------------------------------------------------------------
(* The daemon as an EventHandler: every sequence of OnPress and OnRelease
   calls, on a daemon whose service stays silent and whose transport holds,
   with recordings long enough for the silence gate to act *)

\* OnPress is called again before any OnRelease
OnPressAgain == OnPressAt("held")

\* OnRelease is called with no press before it
OnReleaseIdle == OnReleaseAt("idle")

DaemonCapture == CaptureChunk(MaxGateFrames, GateLevels)

\* a press is handled after the handling of the one before
DaemonPress ==
    /\ session < MaxDaemonSessions
    /\ OnPressRefresh

DaemonNext ==
    \/ Initialize
    \/ DaemonPress
    \/ OnPressAgain
    \/ OnPressIsConnected
    \/ OnPressStart
    \/ HoldTick
    \/ DaemonCapture
    \/ ForwardFrame
    \/ OnRelease
    \/ OnReleaseIdle
    \/ OnReleaseTerminate
    \/ OnReleaseWaitTimeout
    \/ OnReleaseConsume
    \/ OnReleaseReset
    \/ OnReleaseReport

SpecDaemon == SysSpecInit /\ [][DaemonNext]_vars

----------------------------------------------------------------------------
(* The recorder alone: every sequence of Start and Stop calls on one Recorder
   whose callback is the SendAudio of a client, with recordings long enough
   for the silence gate to act *)

\* everything but the recorder, its observation and what SendAudio constrains
nonGateVars == <<procVars, obsVars, now, scenario, failRun, lastWrite, daemonVars, svcVars,
                 sessVars>>

GateStart ==
    /\ \E started \in BOOLEAN : RecorderStart(started)
    /\ IF recording
       THEN UNCHANGED gateObs
       ELSE /\ frameScenario' = 0
            /\ anyLoud' = FALSE
            /\ anyQuiet' = FALSE
            /\ lastFrame' = "none"
    /\ UNCHANGED <<clientSide, nonGateVars>>

GateStop ==
    /\ RecorderStop
    /\ lastFrame' = IF recording /\ pendingFrame THEN "dropped" ELSE lastFrame
    /\ UNCHANGED <<frameScenario, anyLoud, anyQuiet, clientSide, nonGateVars>>

GateCapture == CaptureChunk(MaxGateFrames, GateLevels)

GateNext ==
    \/ GateStart
    \/ GateCapture
    \/ ForwardFrame
    \/ GateStop

SpecGate == SysSpecInit /\ [][GateNext]_vars

----------------------------------------------------------------------------
(* The press handler on a client with a history: between presses the client
   has been given the reports of earlier sessions, time has passed and the
   peer may have left.  The sessions themselves are left out, a release
   comes at once. *)

\* the report of an earlier session that ended without a transcript
EarlierSessionFailed ==
    /\ pc = "idle"
    /\ failedSessions < MaxFailed
    /\ ReportSessionFailure
    /\ UNCHANGED <<procVars, obsVars, now, scenario, failRun, lastWrite, sysVars>>

\* the report of an earlier session that ended with a paste
EarlierSessionPasted ==
    /\ pc = "idle"
    /\ sessionCount < MaxSessionCount
    /\ ReportSessionSuccess
    /\ UNCHANGED <<procVars, obsVars, now, scenario, failRun, lastWrite, sysVars>>

\* time passes between two presses
IdleTick ==
    /\ pc = "idle"
    /\ Tick
    /\ UNCHANGED <<procVars, obsVars, clientVars, connState, nextConn, loopPc, clientObsVars,
                   sysVars>>

PressNext ==
    \/ Initialize
    \/ EarlierSessionFailed
    \/ EarlierSessionPasted
    \/ IdleTick
    \/ SvcPeerClose
    \/ OnPressRefresh
    \/ OnPressClose
    \/ OnPressIsConnected
    \/ OnPressConnect
    \/ OnPressFail
    \/ OnPressStart
    \/ OnRelease

SpecPress == SysSpecInit /\ [][PressNext]_vars

----------------------------------------------------------------------------

(* The hotkey manager in front of the handlers: the key, the pollKeyState
   goroutine, Listen on the hotkey goroutine calling OnPress and OnRelease,
   and Cleanup on the main goroutine.  A release comes without the clock
   having advanced. *)

\* what the handlers and the transport leave alone in the steps of the
\* hotkey manager
nonHotkeyVars == <<procVars, obsVars, clientVars, netVars, clientObsVars, recVars, gateObs, pc,
                   pressTime, lockVars, svcVars, sessVars>>

\* SimpleHotkeyManager.Start (part_003:41-48), called by Run
HotkeyStart ==
    /\ pc = "idle"
    /\ ~running /\ ~polling /\ listenPc = "none" /\ cleanupPc = "none"
    /\ running' = TRUE
    /\ polling' = TRUE
    /\ UNCHANGED <<keyDown, wasPressed, triggered, released, done, listenPc, lastHandler,
                   cleanupPc, nonHotkeyVars>>

\* Run: go d.hotkeyManager.Listen() (part_000:116)
RunListen ==
    /\ polling
    /\ listenPc = "none"
    /\ listenPc' = "select"
    /\ UNCHANGED <<keyDown, wasPressed, triggered, released, done, running, polling,
                   lastHandler, cleanupPc, nonHotkeyVars>>

\* the user presses Ctrl+Shift
KeyDown ==
    /\ ~keyDown
    /\ keyDown' = TRUE
    /\ UNCHANGED <<wasPressed, triggered, released, done, running, polling, listenPc,
                   lastHandler, cleanupPc, nonHotkeyVars>>

\* the user lets go of Ctrl+Shift
KeyUp ==
    /\ keyDown
    /\ keyDown' = FALSE
    /\ UNCHANGED <<wasPressed, triggered, released, done, running, polling, listenPc,
                   lastHandler, cleanupPc, nonHotkeyVars>>

\* pollKeyState (part_003:76-100): a turn of the loop that sees a change of
\* the key; the sends do not block.  The loop test reads s.running with no
\* synchronisation, so a turn can follow Stop.
PollKeyState ==
    /\ polling
    /\ keyDown # wasPressed
    /\ wasPressed' = keyDown
    /\ IF keyDown
       THEN /\ triggered' = TrySend(triggered, TRUE)
            /\ UNCHANGED released
       ELSE /\ released' = TrySend(released, TRUE)
            /\ UNCHANGED triggered
    /\ UNCHANGED <<keyDown, done, running, polling, listenPc, lastHandler, cleanupPc,
                   nonHotkeyVars>>

\* pollKeyState: the loop test finds running false
PollReturn ==
    /\ polling
    /\ ~running
    /\ polling' = FALSE
    /\ UNCHANGED <<keyDown, wasPressed, triggered, released, done, running, listenPc,
                   lastHandler, cleanupPc, nonHotkeyVars>>

\* a Listen that takes the next press without waiting for the release
ListenTakesNextPress ==
    /\ listenPc \in {"select", "press"}
    /\ pc \in {"idle", "held"}
    /\ triggered # <<>>
    /\ triggered' = Tail(triggered)
    /\ listenPc' = "press"
    /\ lastHandler' = "OnPress"
    /\ UNCHANGED <<keyDown, wasPressed, released, done, running, polling, cleanupPc,
                   nonHotkeyVars>>

\* Listen (part_003:59-74): the select receives from triggered and
\* handler.OnPress is called
ListenTriggered ==
    /\ listenPc = "select"
    /\ triggered # <<>>
    /\ triggered' = Tail(triggered)
    /\ listenPc' = "press"
    /\ lastHandler' = "OnPress"
    /\ UNCHANGED <<keyDown, wasPressed, released, done, running, polling, cleanupPc,
                   nonHotkeyVars>>

\* Daemon.OnPress as Listen calls it
HandlerOnPress ==
    /\ listenPc = "press"
    /\ OnPressRefresh

\* Listen: OnPress has returned, the receive from released completes and
\* handler.OnRelease is called
ListenReleased ==
    /\ listenPc = "press"
    /\ pc = "held"
    /\ released # <<>>
    /\ released' = Tail(released)
    /\ listenPc' = "release"
    /\ lastHandler' = "OnRelease"
    /\ UNCHANGED <<keyDown, wasPressed, triggered, done, running, polling, cleanupPc,
                   nonHotkeyVars>>

\* Daemon.OnRelease as Listen calls it
HandlerOnRelease ==
    /\ listenPc = "release"
    /\ OnRelease

\* Listen: OnRelease has returned, back to the select
ListenLoop ==
    /\ listenPc = "release"
    /\ pc = "idle"
    /\ listenPc' = "select"
    /\ UNCHANGED <<keyDown, wasPressed, triggered, released, done, running, polling,
                   lastHandler, cleanupPc, nonHotkeyVars>>

\* Listen: the select receives from done
ListenDone ==
    /\ listenPc = "select"
    /\ done # <<>>
    /\ done' = Tail(done)
    /\ listenPc' = "returned"
    /\ UNCHANGED <<keyDown, wasPressed, triggered, released, running, polling, lastHandler,
                   cleanupPc, nonHotkeyVars>>

\* Cleanup (part_000:126-130): Run has received the signal;
\* SimpleHotkeyManager.Stop (part_003:50-57)
CleanupStopHotkey ==
    /\ listenPc # "none"
    /\ cleanupPc = "none"
    /\ running' = FALSE
    /\ done' = TrySend(done, TRUE)
    /\ cleanupPc' = "c_recorder"
    /\ UNCHANGED <<keyDown, wasPressed, triggered, released, polling, listenPc, lastHandler,
                   nonHotkeyVars>>

\* Cleanup (part_000:132-135): recorder.Stop
CleanupStopRecorder ==
    /\ cleanupPc = "c_recorder"
    /\ RecorderStop
    /\ cleanupPc' = "c_client"
    /\ UNCHANGED <<procVars, obsVars, clientVars, netVars, clientObsVars, gateObs, pc, pressTime,
                   keyDown, wasPressed, triggered, released, done, running, polling, listenPc,
                   lastHandler, lockVars, svcVars, sessVars>>

\* Cleanup (part_000:137-143): transcriptClient.Close, then Cleanup returns
CleanupClose ==
    /\ cleanupPc = "c_client"
    /\ Close
    /\ cleanupPc' = "returned"
    /\ UNCHANGED <<procVars, obsVars, now, scenario, failRun, lastWrite, recVars, gateObs, pc,
                   pressTime, keyDown, wasPressed, triggered, released, done, running, polling,
                   listenPc, lastHandler, lockVars, svcVars, sessVars>>

\* the steps of the key, the hotkey manager and the handlers
KeysNext ==
    \/ Initialize
    \/ HotkeyStart
    \/ RunListen
    \/ KeyDown
    \/ KeyUp
    \/ PollKeyState
    \/ ListenTriggered
    \/ HandlerOnPress
    \/ OnPressClose
    \/ OnPressIsConnected
    \/ OnPressConnect
    \/ OnPressFail
    \/ OnPressStart
    \/ ListenReleased
    \/ HandlerOnRelease
    \/ ListenLoop
    \/ SvcPeerClose

\* the daemon from its start, the user at the key
SpecKeys == SysSpecInit /\ [][KeysNext]_vars

ShutdownNext ==
    \/ KeysNext
    \/ PollReturn
    \/ ListenDone
    \/ CleanupStopHotkey
    \/ CleanupStopRecorder
    \/ CleanupClose

\* the same with the shutdown of Run at any time after the start
SpecShutdown == SysSpecInit /\ [][ShutdownNext]_vars

----------------------------------------------------------------------------

(* The client called from two goroutines: Connect on one, the session
   reports, the refresh test, the probe and SendAudio on the other.  The
   mutex is taken and released where the code takes and releases it. *)

\* what the calls on the client leave alone
nonMutexVars == <<procVars, obsVars, now, scenario, failRun, lastWrite, recVars, gateObs, pc,
                  pressTime, hotkeyVars, svcVars, sessVars>>

\* the calls of the other goroutine, each under Lock and a deferred Unlock
LockedOps == {"ReportSessionSuccess", "ReportSessionFailure", "ConnectionNeedsRefresh",
              "IsConnected", "SendAudio"}

\* Connect (assemblyai.go:92): c.wsMutex.Lock()
ConnectLock ==
    /\ wsMutex = "free"
    /\ connectPc = "none"
    /\ wsMutex' = "connect"
    /\ connectPc' = "locked"
    /\ UNCHANGED <<clientVars, netVars, clientRet, lockedOp, nonMutexVars>>

\* Connect (assemblyai.go:93-100): the result of Dial is stored, the mutex
\* is released, an error is returned
ConnectDial ==
    /\ connectPc = "locked"
    /\ \E dialed \in BOOLEAN :
        /\ dialed => nextConn < MaxConns
        /\ IF dialed
           THEN /\ nextConn' = nextConn + 1
                /\ connState' = [connState EXCEPT ![nextConn + 1] = "open"]
                /\ wsConn' = nextConn + 1
                /\ connectPc' = "dialed"
                /\ UNCHANGED clientRet
           ELSE /\ wsConn' = 0
                /\ connectPc' = "none"
                /\ clientRet' = FALSE
                /\ UNCHANGED <<connState, nextConn>>
    /\ wsMutex' = "free"
    /\ UNCHANGED <<chunkCount, lastChunkSize, connectionHealth, lastConnectionTime, sessionCount,
                   failedSessions, loopPc, now, lockedOp, nonMutexVars>>

\* Connect (assemblyai.go:105-118): the health fields are set and the
\* receive loop is started, after the Unlock of line 95
ConnectHealth ==
    /\ connectPc = "dialed"
    /\ lastConnectionTime' = now
    /\ connectionHealth' = 100
    /\ sessionCount' = 0
    /\ failedSessions' = 0
    /\ loopPc' = [loopPc EXCEPT ![wsConn] = LoopAt("top")]
    /\ clientRet' = TRUE
    /\ connectPc' = "none"
    /\ UNCHANGED <<wsConn, chunkCount, lastChunkSize, connState, nextConn, now, wsMutex,
                   lockedOp, nonMutexVars>>

\* the other goroutine enters a call: Lock
OtherLock ==
    \E op \in LockedOps :
        /\ wsMutex = "free"
        /\ lockedOp = "none"
        /\ op = "ReportSessionSuccess" => sessionCount < MaxSessionCount
        /\ op = "ReportSessionFailure" => failedSessions < MaxFailed
        /\ op = "SendAudio" => chunkCount < MaxChunks
        /\ wsMutex' = "other"
        /\ lockedOp' = op
        /\ UNCHANGED <<clientVars, netVars, clientRet, connectPc, nonMutexVars>>

\* the other goroutine runs the call it has locked the mutex for and unlocks
OtherCall ==
    /\ wsMutex = "other"
    /\ lockedOp # "none"
    /\ CASE lockedOp = "ReportSessionSuccess" -> ReportSessionSuccess
         [] lockedOp = "ReportSessionFailure" -> ReportSessionFailure
         [] lockedOp = "ConnectionNeedsRefresh" -> ConnectionNeedsRefresh
         [] lockedOp = "IsConnected" -> \E outcome \in PlainWriteNow : IsConnected(outcome)
         [] lockedOp = "SendAudio" -> \E outcome \in WriteNow : SendAudio(FrameBytes, outcome)
    /\ wsMutex' = "free"
    /\ lockedOp' = "none"
    /\ UNCHANGED <<now, connectPc, nonMutexVars>>

\* the peer leaves the connection the client holds
MutexPeerClose ==
    \E k \in ConnIds :
        /\ k = wsConn
        /\ PeerClose(k)
        /\ UNCHANGED <<clientVars, nextConn, loopPc, now, clientRet, lockVars, nonMutexVars>>

MutexNext ==
    \/ ConnectLock
    \/ ConnectDial
    \/ ConnectHealth
    \/ OtherLock
    \/ OtherCall
    \/ MutexPeerClose

SpecMutex == ClientInit /\ [][MutexNext]_vars

----------------------------------------------------------------------------

(* Properties of the assembler, checked under SpecProc *)

IsFinalMsg(m) == m.isFinal
IsPartialMsg(m) == ~m.isFinal

\* the texts of a sequence of turn messages, in order
RECURSIVE TextsOf(_)
TextsOf(h) == IF h = <<>> THEN <<>> ELSE <<h[1].text>> \o TextsOf(Tail(h))

FinalTexts(h) == TextsOf(SelectSeq(h, IsFinalMsg))

\* f1, ..., fn joined by exactly one space
RECURSIVE JoinSpace(_)
JoinSpace(frags) ==
    IF frags = <<>> THEN EmptyString
    ELSE IF Len(frags) = 1 THEN frags[1]
    ELSE frags[1] \o <<SP>> \o JoinSpace(Tail(frags))

\* what ProcessTranscript has reconciled once it processed the finals of h
RECURSIVE FinalsWithSpace(_)
FinalsWithSpace(frags) ==
    IF frags = <<>> THEN <<>>
    ELSE <<frags[1] \o <<SP>> >> \o FinalsWithSpace(Tail(frags))

Reconciled(h) == CompleteText(FinalsWithSpace(FinalTexts(h)))

TranscriptCleared ==
    /\ currentTranscript = EmptyString
    /\ finalTranscripts = <<>>
    /\ bestPartialTranscript = EmptyString
    /\ bestPartialConfidence = 0
    /\ turnTranscripts = {}
    /\ lastTurnOrder = -1

\* C1: right after a final fragment is processed, the reconciled transcript is
\* the final fragments of the session, in arrival order, joined by exactly one
\* space, whatever their turn orders.
C1_ReconciledIsSpaceJoined ==
    (lastCall = "ProcessTranscript" /\ hist[Len(hist)].isFinal)
        => currentTranscript = JoinSpace(FinalTexts(hist))

\* C2: consuming a session that received at least one final returns
\* isFinal = TRUE and the reconciled text of all its finals, also when a
\* partial arrived after the last final.
C2_ConsumeReturnsReconciledFinals ==
    (lastCall = "Consume" /\ FinalTexts(hist) # <<>>)
        => consumed = [text |-> Reconciled(hist), isFinal |-> TRUE]

\* the partials of h that have the maximum confidence and, among those, the
\* maximum length
BestPartials(h) ==
    LET ps == SelectSeq(h, IsPartialMsg)
        P  == { ps[i] : i \in 1..Len(ps) }
        top == { p \in P : \A q \in P : q.conf =< p.conf }
    IN  { p \in top : \A q \in top : Len(q.text) =< Len(p.text) }

\* C3: in a session of partials only, the best partial the assembler holds
\* (the one Consume falls back to) is a partial of maximum confidence, the
\* longest among those of that confidence: a longer partial of lower
\* confidence never replaces it.
C3_BestPartialIsMaxConfidence ==
    (lastCall = "ProcessTranscript" /\ FinalTexts(hist) = <<>>)
        => bestPartialTranscript \in { p.text : p \in BestPartials(hist) }

\* C4: Reset followed by ConsumeTranscriptWithFallback with no turn message
\* in between returns ("", false), whatever the assembler held before.
C4_ResetThenConsumeIsEmpty ==
    (lastCall = "Consume" /\ freshReset)
        => consumed = [text |-> EmptyString, isFinal |-> FALSE]

\* a Consume that directly follows a Reset, with a signal raised in between
C4_Witness ==
    /\ lastCall = "Consume"
    /\ freshReset
    /\ hist = <<>>
    /\ consumed = NoResult
    /\ sessionTerminated # <<>>

\* C7 as stated: after ConsumeTranscriptWithFallback the assembler is in the
\* state Reset produces: no final fragments, no partial, no best partial and
\* no pending termination signal.
C7_ConsumeIsFullReset ==
    lastCall = "Consume" => (TranscriptCleared /\ sessionTerminated = <<>>)

\* C7 as amended: ConsumeTranscriptWithFallback clears the transcript state as
\* Reset does (no final fragments, no current partial, no best partial), but
\* it leaves the termination channel as it was, a pending signal included,
\* and leaves the session marked inactive.
C7_ConsumeClearsTranscriptOnly ==
    [][ lastCall' = "Consume"
            => /\ TranscriptCleared'
               /\ sessionTerminated' = sessionTerminated
               /\ sessionActive' = FALSE ]_vars

\* a session with a final fragment was consumed while a signal was pending
C7_Witness ==
    /\ lastCall = "Consume"
    /\ consumed.isFinal
    /\ TranscriptCleared
    /\ sessionTerminated # <<>>

----------------------------------------------------------------------------
(* Properties of the client, checked under SpecClient *)

Min(a, b) == IF a < b THEN a ELSE b
Max(a, b) == IF a > b THEN a ELSE b

\* C8: in every reachable state of the client the health score is an integer
\* between 0 and 100.
C8_HealthInRange == connectionHealth \in 0..100

\* the fourth consecutive failure was reported on a connection that had had a
\* successful session, and the health score is at the floor
C8_Witness ==
    /\ lastCall = "ReportSessionFailure"
    /\ connectionHealth = 0
    /\ failedSessions = MaxFailed
    /\ sessionCount > 0

\* C9: ReportSessionSuccess sets health to min(health + 10, 100) and the
\* consecutive-failure counter to 0; ReportSessionFailure sets health to
\* max(health - 15, 0) and adds 1 to the counter; on a fresh connection
\* success, success, failure gives health 100, 100, 85 and counter 0, 0, 1.
C9_ReportUpdates ==
    [][ /\ lastCall' = "ReportSessionSuccess"
            => /\ connectionHealth' = Min(connectionHealth + 10, 100)
               /\ failedSessions' = 0
        /\ lastCall' = "ReportSessionFailure"
            => /\ connectionHealth' = Max(connectionHealth - 15, 0)
               /\ failedSessions' = failedSessions + 1
        /\ scenario' \in {1, 2} => (connectionHealth' = 100 /\ failedSessions' = 0)
        /\ scenario' = 3 => (connectionHealth' = 85 /\ failedSessions' = 1) ]_vars

\* success, success, failure were reported on a fresh connection
C9_Witness ==
    /\ scenario = 3
    /\ lastCall = "ReportSessionFailure"
    /\ sessionCount = 2

\* C10: ConnectionNeedsRefresh returns true exactly when health < 20, or the
\* consecutive-failure counter is at least 3, or the connection is older than
\* 10 minutes and health < 60; it changes nothing in the client.
C10_NeedsRefreshIff ==
    [][ lastCall' = "ConnectionNeedsRefresh"
            => /\ clientRet' =
                    ( \/ connectionHealth < 20
                      \/ failedSessions >= 3
                      \/ /\ \/ lastConnectionTime = ZeroTime
                            \/ now - lastConnectionTime > 10 * 60 * 1000
                         /\ connectionHealth < 60 )
               /\ UNCHANGED <<clientVars, netVars>> ]_vars

\* it returned true for the age of a connection alone: health in 20..59,
\* fewer than 3 consecutive failures, connected more than 10 minutes ago
C10_Witness ==
    /\ lastCall = "ConnectionNeedsRefresh"
    /\ clientRet = TRUE
    /\ connectionHealth >= 20
    /\ failedSessions < 3
    /\ lastConnectionTime # ZeroTime

\* it returned false on a connection older than 10 minutes
C10_WitnessFalse ==
    /\ lastCall = "ConnectionNeedsRefresh"
    /\ clientRet = FALSE
    /\ lastConnectionTime # ZeroTime
    /\ now - lastConnectionTime > 10 * 60 * 1000

----------------------------------------------------------------------------
(* Properties of the daemon as a whole, checked under Spec *)

Chars(str) == { str[i] : i \in 1..Len(str) }

\* C5: no cross-session contamination.  The transcript consumed at the end of
\* session n holds only text of turn messages the service produced for the
\* audio of session n (and the spaces the assembler adds): text produced for
\* an earlier session never appears in it.
C5_NoCrossSessionContamination ==
    pc \in {"r_reset", "r_report"} =>
        Chars(consumed.text) \subseteq Chars(SessionWord(session)) \cup {SP}

\* C6: a termination signal of an earlier session never completes the
\* termination wait of a later one.  The wait of session n completes only on
\* the Termination message that answers session n's Terminate request, or
\* on the timeout (waitSignal = 0).
C6_WaitCompletesOnOwnTermination ==
    waitSignal # 0 => waitSignal = session

----------------------------------------------------------------------------
(* More properties of the client, checked under SpecClient *)

\* C11: the consecutive-failure counter equals the number of
\* ReportSessionFailure calls since the most recent ReportSessionSuccess or
\* successful Connect; so after three failures in a row, with no success or
\* reconnect between them, ConnectionNeedsRefresh returns true whatever the
\* health is.
C11_FailureCounterCountsRun ==
    /\ failedSessions = failRun
    /\ (lastCall = "ConnectionNeedsRefresh" /\ failRun >= 3) => clientRet = TRUE

\* it returned true after three failures in a row, on a connection that is
\* neither unhealthy (health at least 20) nor old
C11_Witness ==
    /\ lastCall = "ConnectionNeedsRefresh"
    /\ failRun = 3
    /\ clientRet = TRUE
    /\ connectionHealth >= 20
    /\ lastConnectionTime # ZeroTime
    /\ now - lastConnectionTime <= TenMinutes

----------------------------------------------------------------------------
(* Properties of the daemon as an EventHandler, checked under SpecDaemon *)

\* a step that handles a release while a recording is running
ReleaseWhileRecording == pc = "held" /\ recording /\ pc' # "held"

\* C12: a release less than the quick-press threshold after the press ends as
\* TooShort, however loud the frames were: the handler returns at once, so
\* no Terminate is sent, no transcript is consumed, nothing is pasted and
\* nothing is reported.
C12_QuickPressIsTooShort ==
    [][ (ReleaseWhileRecording /\ now - pressTime < QuickPressThreshold)
            => /\ releaseOutcome' = "TooShort"
               /\ pc' = "idle"
               /\ consumed' = NoResult
               /\ pasted' = <<>>
               /\ reported' = <<>>
               /\ UNCHANGED <<termReq, clientVars, procVars>> ]_vars

\* a quick press whose frames were all at or above the threshold
C12_Witness ==
    /\ releaseOutcome = "TooShort"
    /\ pc = "idle"
    /\ frameCount = 2
    /\ anyLoud
    /\ ~anyQuiet

\* C13: a release at or after the quick-press threshold ends as Silent exactly
\* when no frame of the recording reached the silence threshold, and as
\* Proceed otherwise, whether or not prolongedSilence is set; a recording of
\* the frames 50, 50, 400, 50, 50 is in SpeechDetected with prolongedSilence
\* false and its release proceeds.
C13_VerdictFollowsLoudestFrame ==
    [][ /\ (ReleaseWhileRecording /\ now - pressTime >= QuickPressThreshold)
            => releaseOutcome' = IF anyLoud THEN "Proceed" ELSE "Silent"
        /\ frameScenario' = Len(ScenarioFrames)
            => /\ speechState' = "SpeechDetected"
               /\ ~prolongedSilence'
        /\ (/\ ReleaseWhileRecording
            /\ now - pressTime >= QuickPressThreshold
            /\ frameScenario = Len(ScenarioFrames))
            => releaseOutcome' = "Proceed" ]_vars

\* twenty quiet frames set prolongedSilence, a later loud frame and a long
\* enough hold make the release proceed
C13_Witness ==
    /\ releaseOutcome = "Proceed"
    /\ pc = "r_term"
    /\ prolongedSilence
    /\ ~recording

\* the five-frame recording, released after the threshold
C13_ScenarioReleased ==
    /\ releaseOutcome = "Proceed"
    /\ frameScenario = Len(ScenarioFrames)
    /\ speechState = "SpeechDetected"
    /\ ~prolongedSilence

\* a long enough recording whose loudest frame is exactly at the threshold
C13_ThresholdFrameProceeds ==
    /\ releaseOutcome = "Proceed"
    /\ maxRMS = SilenceThreshold

\* a long enough recording of quiet frames only, prolongedSilence set
C13_ProlongedSilent ==
    /\ releaseOutcome = "Silent"
    /\ prolongedSilence
    /\ frameCount >= MaxSilenceChunks

----------------------------------------------------------------------------
(* Properties of the silence gate, checked under SpecGate *)

\* a step in which audioStreamLoop puts one chunk through the gate
FrameStep == frameCount' = frameCount + 1

\* C14: the speech state of a recording only moves forward. The first chunk
\* at or above the silence threshold moves it from WaitingForSpeech to
\* SpeechDetected and sets the silence counter to 0; quiet chunks never move
\* it; once SpeechDetected it stays so until the reset of the next Start.
C14_SpeechStateMonotonic ==
    [][ /\ (speechState = "SpeechDetected" /\ speechState' # "SpeechDetected")
            => (~recording /\ recording' = capturing' /\ frameCount' = 0 /\ ~anyLoud')
        /\ (FrameStep /\ ~anyLoud /\ anyLoud')
            => /\ speechState = "WaitingForSpeech"
               /\ speechState' = "SpeechDetected"
               /\ silenceChunks' = 0
        /\ (FrameStep /\ ~anyLoud') => speechState' = "WaitingForSpeech"
        /\ (FrameStep /\ anyLoud)
            => (speechState = "SpeechDetected" /\ speechState' = "SpeechDetected") ]_vars

\* two quiet chunks, then the first loud one
C14_Witness ==
    /\ frameScenario = 3
    /\ speechState = "SpeechDetected"
    /\ silenceChunks = 0
    /\ recording

\* C15: prolongedSilence is set by the chunk that brings the silence counter
\* to MaxSilenceChunks while the state is WaitingForSpeech, and by no other
\* step: in a recording of quiet chunks it is false after chunks 1..19 and
\* true from chunk 20 on. Once set it stays set through every later chunk,
\* loud ones included, until the reset of the next Start; chunks that find
\* the state SpeechDetected never change it.
C15_ProlongedSilenceSetOnceSticky ==
    [][ /\ (~prolongedSilence /\ prolongedSilence')
            => /\ FrameStep
               /\ speechState' = "WaitingForSpeech"
               /\ silenceChunks' = MaxSilenceChunks
        /\ (FrameStep /\ speechState' = "WaitingForSpeech" /\ silenceChunks' >= MaxSilenceChunks)
            => prolongedSilence'
        /\ (prolongedSilence /\ ~prolongedSilence')
            => (~recording /\ recording' = capturing' /\ frameCount' = 0)
        /\ (FrameStep /\ speechState = "SpeechDetected")
            => prolongedSilence' = prolongedSilence
        /\ ~anyLoud' => (prolongedSilence' <=> frameCount' >= MaxSilenceChunks) ]_vars

\* twenty quiet chunks set the flag, the loud chunk 21 leaves it set
C15_Witness ==
    /\ prolongedSilence
    /\ speechState = "SpeechDetected"
    /\ silenceChunks = 0
    /\ frameCount = MaxSilenceChunks + 1

----------------------------------------------------------------------------
(* Properties of the recorder inside the daemon, checked under SpecDaemon *)

\* a step that settles what happens to the chunk the gate has just seen
FrameSettled == pendingFrame /\ ~pendingFrame'

\* the gate lets the chunk through
GateOpen == ~(speechState = "WaitingForSpeech" /\ prolongedSilence)

C16_WithheldFromDetection ==
    /\ lastFrame = "withheld"
    /\ frameCount = MaxSilenceChunks
    /\ chunkCount = MaxSilenceChunks - 1

\* C17: a press handled while a recording is running changes nothing: the
\* client is not asked about a refresh and not reconnected, the assembler is
\* not reset, the press time stays, the recorder and its capture loop go on
\* as they were and the handler is back where it was. A recording only
\* starts when none is running, so there is never more than one.
C17_PressWhileRecordingIgnored ==
    [][ /\ (~ignored /\ ignored')
            => /\ recording
               /\ UNCHANGED <<procVars, consumed, clientVars, connState, nextConn, loopPc,
                              clientRet, lastCall, recVars, gateObs, daemonVars, svcVars,
                              session, presses, releaseOutcome, pasted, reported>>
        /\ session' # session => (~recording /\ recording' /\ frameCount' = 0)
        /\ capturing' => recording' ]_vars

\* a press was ignored in the middle of a recording
C17_Witness ==
    /\ ignored
    /\ recording
    /\ capturing
    /\ pc = "held"
    /\ frameCount > 0
    /\ session = 1

----------------------------------------------------------------------------
(* Progress of the release handler, checked under SpecLive *)

\* the ends of a release that went on to the transcription
ProceedEnds == {"Pasted", "PasteFailed", "NoTranscript"}

\* C18: a release on the Proceed path always comes back to idle: from
\* the Terminate request the handler goes through the wait, which ends on the
\* signal or on the timer, the consumption, the reset and the report, whatever
\* the service sends or does not send. (The TooShort and Silent releases are
\* back at idle in the step that handles them.)
C18_ReleaseReturnsToIdle ==
    /\ (pc \in {"r_term", "r_wait", "r_consume", "r_reset", "r_report"})
            ~> (pc = "idle" /\ releaseOutcome \in ProceedEnds)
    /\ [][ /\ ReleaseWhileRecording => pc' \in {"idle", "r_term"}
           /\ pc = "r_term" => pc' = "r_wait"
           /\ pc = "r_wait" => pc' = "r_consume"
           /\ pc = "r_consume" => pc' = "r_reset" ]_pc

\* a release that proceeded and ended on the timer, the service having sent
\* no turn and no Termination
C18_Witness ==
    /\ pc = "idle"
    /\ releaseOutcome = "NoTranscript"
    /\ waitSignal = 0
    /\ turnsSent = 0
    /\ \A k \in ConnIds : inbox[k] = <<>>

----------------------------------------------------------------------------
(* Properties of the end of a session, checked under Spec *)

\* C19: whatever the outcome of a release handled while recording, the
\* assembler is reset before the daemon is idle again: a release that ends
\* at once (TooShort, Silent) leaves it with no final fragments, no current
\* partial and no best partial, and so does the Reset that follows the
\* consumption on the other paths.
C19_AssemblerResetOnEveryRelease ==
    [][ /\ (ReleaseWhileRecording /\ pc' = "idle") => TranscriptCleared'
        /\ pc = "r_reset" => TranscriptCleared' ]_vars

\* C20: the release of a session whose consumed transcript is not empty hands
\* that text to PasteTextSafely once and reports the success of the session
\* to the client once: the session ends with one paste, one report, which is
\* a success, and the failure counter of the client at 0.
C20_NonEmptyPastedAndReportedOnce ==
    [][ (pc = "r_report" /\ pc' = "idle" /\ consumed.text # EmptyString)
            => /\ pasted' = <<consumed.text>>
               /\ reported' = <<"success">>
               /\ failedSessions' = 0 ]_vars

\* the step of the release handler that pastes and reports
ReportStep == pc = "r_report" /\ pc' = "idle"

\* C21: a failed paste does not degrade the connection: the release leaves
\* the health score and the failure counter of the client as they were (the
\* whole client, in fact), and it leaves the assembler as a successful paste
\* does, untouched since the Reset that came before the paste.
C21_PasteFailureKeepsHealth ==
    [][ /\ (ReportStep /\ releaseOutcome' = "PasteFailed")
            => /\ connectionHealth' >= connectionHealth
               /\ failedSessions' <= failedSessions
               /\ UNCHANGED <<clientVars, connState, procVars>>
        /\ (ReportStep /\ releaseOutcome' = "Pasted") => UNCHANGED procVars ]_vars

\* a release whose paste failed
C21_Witness ==
    /\ pc = "idle"
    /\ releaseOutcome = "PasteFailed"
    /\ Len(pasted) = 1
    /\ reported = <<>>

\* C22: the release of a session whose consumed transcript is empty reports
\* one session failure and pastes nothing; and between one press and the
\* next the daemon makes at most one session report, a report being every
\* step that raises the failure counter or the session count of the client.
C22_EmptyReportedOnceAsFailure ==
    [][ /\ (ReportStep /\ consumed.text = EmptyString)
            => /\ reported' = <<"failure">>
               /\ pasted' = <<>>
               /\ failedSessions' = failedSessions + 1
        /\ (failedSessions' = failedSessions + 1 \/ sessionCount' = sessionCount + 1)
            => Len(reported') = Len(reported) + 1
        /\ Len(reported') <= 1 ]_vars

\* a release that proceeded, found no transcript and reported the failure
C22_Witness ==
    /\ pc = "idle"
    /\ releaseOutcome = "NoTranscript"
    /\ reported = <<"failure">>
    /\ pasted = <<>>
    /\ failedSessions = 1

\* a press whose reconnect failed, and the release after it: one report
C22_FailedPressReportedOnce ==
    /\ pc = "idle"
    /\ releaseOutcome = "NotRecording"
    /\ reported = <<"failure">>

----------------------------------------------------------------------------
(* More properties of the daemon as an EventHandler, checked under SpecDaemon *)

\* C23: a release that ends as TooShort or Silent does not touch the client:
\* health score, failure counter, connection and counters are as before, no
\* Terminate request goes out, no report is made, no transcript is consumed
\* and nothing is pasted; the handler is back at idle.
C23_GateRejectionLeavesClient ==
    [][ (ReleaseWhileRecording /\ releaseOutcome' \in {"TooShort", "Silent"})
            => /\ pc' = "idle"
               /\ UNCHANGED <<clientVars, connState, termReq, consumed, pasted, reported>>
               /\ consumed' = NoResult
               /\ pasted' = <<>> ]_vars

\* a silent recording released on a connected client that was sent chunks
C23_Witness ==
    /\ pc = "idle"
    /\ releaseOutcome = "Silent"
    /\ wsConn # 0
    /\ chunkCount > 0
    /\ connectionHealth = 100
    /\ failedSessions = 0

----------------------------------------------------------------------------
(* Properties of the press handler, checked under SpecPress *)

\* C24: when the client is not connected at a press and Connect fails, the
\* handler reports one session failure and returns: no recording runs, the
\* recorder and the press time are as they were, the assembler is not reset;
\* the release that follows finds no recording and changes nothing.
C24_FailedReconnectAbortsPress ==
    [][ /\ (pc = "p_connect" /\ pc' # pc /\ ~clientRet') => (pc' = "p_fail" /\ wsConn' = 0)
        /\ (pc = "p_fail" /\ pc' # pc)
            => /\ pc' = "held"
               /\ failedSessions' = failedSessions + 1
               /\ reported' = <<"failure">>
               /\ ~recording' /\ ~capturing'
               /\ UNCHANGED <<recVars, pressTime, procVars, session>>
        /\ (pc = "held" /\ ~recording /\ pc' = "idle")
            => /\ releaseOutcome' = "NotRecording"
               /\ UNCHANGED <<clientVars, connState, procVars, recVars, pressTime, termReq,
                              consumed, pasted, reported>> ]_vars

\* the first press found the connection dead, its reconnect failed, and the
\* release after it was ignored
C24_Witness ==
    /\ pc = "idle"
    /\ releaseOutcome = "NotRecording"
    /\ reported = <<"failure">>
    /\ wsConn = 0
    /\ pressTime = ZeroTime
    /\ session = 0
    /\ presses = 1

\* the test of ConnectionNeedsRefresh on the client as it is now
Degraded == NeedsRefresh(connectionHealth, failedSessions, ConnectionOlderThan(TenMinutes))

\* C25: a press handled in Idle with ConnectionNeedsRefresh() true closes the
\* connection and goes on to Connect before the recorder is started; the
\* recorder is then started on the connection Connect has just made (health
\* 100, no failures, no refresh needed), or the press ends without recording;
\* no recording starts while ConnectionNeedsRefresh() is true.
C25_DegradedConnectionReplaced ==
    [][ /\ (pc = "idle" /\ pc' # "idle" /\ ~recording)
            => pc' = IF Degraded THEN "p_close" ELSE "p_isconn"
        /\ (pc = "p_close" /\ pc' # pc)
            => /\ pc' = "p_isconn"
               /\ wsConn' = 0
               /\ wsConn # 0 => connState'[wsConn] = "closed"
               /\ ~recording'
        /\ (pc = "p_isconn" /\ pc' # pc /\ refreshed)
            => (pc' = "p_connect" /\ wsConn' = 0 /\ ~recording')
        /\ (pc = "p_connect" /\ pc' # pc /\ refreshed)
            => /\ ~recording'
               /\ \/ /\ pc' = "p_start"
                     /\ wsConn' = nextConn' /\ nextConn' = nextConn + 1
                     /\ connState[wsConn'] = "none" /\ connState'[wsConn'] = "open"
                     /\ connectionHealth' = 100 /\ failedSessions' = 0
                     /\ lastConnectionTime' = now
                  \/ /\ pc' = "p_fail"
                     /\ wsConn' = 0
        /\ (pc = "p_fail" /\ pc' # pc /\ refreshed) => (pc' = "held" /\ ~recording')
        /\ (~recording /\ recording')
            => /\ pc = "p_start"
               /\ ~Degraded
               /\ refreshed => /\ wsConn # 0
                               /\ connectionHealth = 100 /\ failedSessions = 0
                               /\ lastConnectionTime = now ]_vars

\* three earlier sessions failed on the first connection; the press closed it
\* and records on the second one
C25_Witness ==
    /\ recording
    /\ refreshed
    /\ wsConn = 2
    /\ connState[1] = "closed"
    /\ connectionHealth = 100
    /\ failedSessions = 0

----------------------------------------------------------------------------
(* Properties of the client's connection calls, checked under SpecClient *)

\* C26: a Connect that succeeds sets the health to 100 and the session and
\* failure counters to 0 and starts the receive loop of the connection it
\* made, and no other; a Connect that fails returns an error, leaves the
\* client without a handle, so that IsConnected is false and SendAudio fails
\* without a write, and leaves health and counters as they were.
C26_ConnectResetsOrLeavesNothing ==
    [][ /\ lastCall' = "Connect"
            => IF clientRet'
               THEN /\ connectionHealth' = 100
                    /\ sessionCount' = 0
                    /\ failedSessions' = 0
                    /\ nextConn' = nextConn + 1
                    /\ wsConn' = nextConn'
                    /\ connState'[wsConn'] = "open"
                    /\ loopPc[wsConn'] = LoopAt("none")
                    /\ loopPc'[wsConn'] = LoopAt("top")
                    /\ \A k \in ConnIds \ {wsConn'} : loopPc'[k] = loopPc[k]
               ELSE /\ wsConn' = 0
                    /\ UNCHANGED <<connectionHealth, sessionCount, failedSessions,
                                   lastConnectionTime, connState, nextConn, loopPc>>
        /\ (lastCall = "Connect" /\ ~clientRet /\ lastCall' \in {"IsConnected", "SendAudio"})
            => (~clientRet' /\ lastWrite' = NoWrite) ]_vars

\* a second Connect, made after two failed sessions on the first connection
\* had lowered the health, has succeeded
C26_Witness ==
    /\ lastCall = "Connect"
    /\ clientRet
    /\ wsConn = 2
    /\ connectionHealth = 100
    /\ sessionCount = 0
    /\ failedSessions = 0
    /\ loopPc[2] = LoopAt("top")

\* a Connect has failed on a client that held an open connection
C26_FailedOverOpenConnection ==
    /\ lastCall = "Connect"
    /\ ~clientRet
    /\ wsConn = 0
    /\ connState[1] = "open"
    /\ failedSessions > 0

\* C27: a SendAudio whose write fails because the transport reports the
\* connection closed or reset leaves the client without its handle and
\* returns the error, after one write; without a connection SendAudio
\* returns an error, writes nothing and changes nothing.
C27_FailedWriteDisconnects ==
    [][ lastCall' = "SendAudio"
            => /\ (wsConn # 0 /\ lastWrite'.err \in {"closeFrame", "closeSent", "reset"})
                    => /\ wsConn' = 0
                       /\ ~clientRet'
                       /\ lastWrite'.frame = "audio"
               /\ wsConn = 0
                    => /\ ~clientRet'
                       /\ lastWrite' = NoWrite
                       /\ UNCHANGED <<clientVars, connState>> ]_vars

\* the same for the errors SendAudio tests for: a close error of the peer,
\* "websocket: close sent", "use of closed network connection"
C27_CloseErrorDisconnects ==
    [][ lastCall' = "SendAudio"
            => /\ (wsConn # 0 /\ DropsConnection(lastWrite'.err))
                    => /\ wsConn' = 0
                       /\ ~clientRet'
                       /\ lastWrite'.frame = "audio"
               /\ (wsConn # 0 /\ lastWrite'.err \in {"reset", "other"})
                    => /\ wsConn' = wsConn
                       /\ ~clientRet'
               /\ wsConn = 0
                    => /\ ~clientRet'
                       /\ lastWrite' = NoWrite
                       /\ UNCHANGED <<clientVars, connState>> ]_vars

\* a write has failed with "connection reset by peer" and the client holds
\* the handle still
C27_ResetKeepsHandle ==
    /\ lastCall = "SendAudio"
    /\ lastWrite = [frame |-> "audio", err |-> "reset"]
    /\ ~clientRet
    /\ wsConn # 0

\* C28: Terminate on a client without a connection returns nil, writes
\* nothing and leaves handle, health and counters as they were; with a
\* connection it writes one Terminate request and returns nil, whatever the
\* write returned and without reading from the connection.
C28_TerminateWritesOnceAndReturns ==
    [][ lastCall' = "Terminate"
            => /\ clientRet'
               /\ UNCHANGED <<clientVars, connState, nextConn, loopPc, procVars>>
               /\ wsConn = 0 => lastWrite' = NoWrite
               /\ wsConn # 0 => lastWrite' \in [frame : {"Terminate"}, err : {"ok", "other"}] ]_vars

\* Terminate returned nil on a connection the peer had left, its write failed
C28_Witness ==
    /\ lastCall = "Terminate"
    /\ clientRet
    /\ wsConn # 0
    /\ connState[wsConn] = "dead"
    /\ lastWrite = [frame |-> "Terminate", err |-> "other"]

\* Terminate returned nil on a client without a connection
C28_NoConnection ==
    /\ lastCall = "Terminate"
    /\ clientRet
    /\ wsConn = 0
    /\ lastWrite = NoWrite
    /\ connectionHealth < 100

\* C29: after Close the client holds no connection and its chunk counters
\* are zero, whether it held a connection or not and whether the close frame
\* was written or not; the connection it held is closed; health, failure and
\* session counters are as before; a Close right after a Close changes
\* nothing.
C29_CloseIsSafeAndIdempotent ==
    [][ lastCall' = "Close"
            => /\ wsConn' = 0
               /\ chunkCount' = 0
               /\ lastChunkSize' = 0
               /\ wsConn # 0 => connState'[wsConn] = "closed"
               /\ wsConn = 0 => (connState' = connState /\ lastWrite' = NoWrite)
               /\ UNCHANGED <<connectionHealth, failedSessions, sessionCount,
                              lastConnectionTime, nextConn, loopPc>>
               /\ lastCall = "Close" => UNCHANGED <<clientVars, connState>> ]_vars

\* Close on a connection the peer had left, on a client with failed sessions:
\* the close frame was not written, the connection is closed all the same
C29_Witness ==
    /\ lastCall = "Close"
    /\ lastWrite = [frame |-> "close", err |-> "other"]
    /\ wsConn = 0
    /\ chunkCount = 0
    /\ lastChunkSize = 0
    /\ connState[1] = "closed"
    /\ failedSessions > 0

\* C30: IsConnected returns true exactly when the client holds a handle and
\* the ping was written, and then changes nothing; when the ping fails the
\* connection is closed and the handle dropped on return; without a handle
\* it returns false, writes nothing and changes nothing.
C30_IsConnectedSelfHeals ==
    [][ /\ lastCall' = "IsConnected"
            => /\ clientRet' = (wsConn # 0 /\ lastWrite'.err = "ok")
               /\ clientRet' => (lastWrite'.frame = "ping" /\ UNCHANGED <<clientVars, connState>>)
               /\ (wsConn # 0 /\ ~clientRet')
                    => /\ wsConn' = 0
                       /\ connState'[wsConn] = "closed"
                       /\ lastWrite'.frame = "ping"
               /\ wsConn = 0
                    => /\ ~clientRet'
                       /\ lastWrite' = NoWrite
                       /\ UNCHANGED <<clientVars, connState>>
        /\ (lastCall = "IsConnected" /\ ~clientRet /\ lastCall' \notin {"Connect", "Tick"})
            => lastWrite' = NoWrite ]_vars

\* the ping failed on a connection the peer had left: closed and dropped
C30_Witness ==
    /\ lastCall = "IsConnected"
    /\ ~clientRet
    /\ lastWrite = [frame |-> "ping", err |-> "other"]
    /\ wsConn = 0
    /\ connState[1] = "closed"

----------------------------------------------------------------------------
(* Properties of the termination signal, checked under SpecProc *)

\* C31: the termination signal is one slot.  SignalTermination can always
\* be called and returns; after it the slot holds one signal, however
\* many were raised; a wait takes the signal and leaves the slot empty, so
\* the next wait needs a new signal; a signal in the slot stays there until
\* a wait or a Reset.
C31_SignalIsOneSlot ==
    /\ [](ENABLED CallSignalTermination)
    /\ [][ /\ Len(sessionTerminated') <= 1
           /\ lastCall' = "SignalTermination"
                => /\ sessionTerminated' = <<TRUE>>
                   /\ UNCHANGED <<currentTranscript, finalTranscripts, turnTranscripts,
                                  bestPartialTranscript, sessionActive>>
           /\ lastCall' = "WaitForTermination"
                => (sessionTerminated = <<TRUE>> /\ sessionTerminated' = <<>>)
           /\ (sessionTerminated # <<>> /\ lastCall' \notin {"Reset", "WaitForTermination"})
                => sessionTerminated' = sessionTerminated ]_vars

\* a wait has taken the signal raised during the session, after a message
\* was processed in between
C31_Witness ==
    /\ lastCall = "WaitForTermination"
    /\ sessionTerminated = <<>>
    /\ Len(hist) > 0
    /\ ~freshReset

----------------------------------------------------------------------------
(* Properties of the shutdown, checked under SpecShutdown *)

\* C32: when Cleanup returns, in whatever state the handlers are, no
\* recording is running, the capture goroutine has ended and the client
\* holds no connection, so that a second Stop and Close would change nothing.
C32_CleanupLeavesNothingRunning ==
    [][ (cleanupPc # "returned" /\ cleanupPc' = "returned")
            => /\ ~recording'
               /\ ~capturing'
               /\ wsConn' = 0
               /\ chunkCount' = 0 ]_vars

\* the part of it that concerns the client
C32_CleanupClosesClient ==
    [][ (cleanupPc # "returned" /\ cleanupPc' = "returned")
            => /\ wsConn' = 0
               /\ chunkCount' = 0
               /\ wsConn # 0 => connState'[wsConn] = "closed" ]_vars

\* Cleanup has returned while OnPress, called by Listen, had started a
\* recording after the Stop of the recorder
C32_RecordingAfterCleanup ==
    /\ cleanupPc = "returned"
    /\ recording
    /\ listenPc = "press"
    /\ wsConn = 0

----------------------------------------------------------------------------
(* Properties of the client's mutex, checked under SpecMutex *)

\* the fields of the client the mutex is there for
GuardedFields == <<wsConn, connectionHealth, sessionCount, failedSessions>>

\* C33: every step that writes the handle, the health, the session count
\* or the failure counter is taken by the goroutine that holds the mutex,
\* the steps of Connect included.
C33_WritesHoldMutex ==
    [][ GuardedFields' # GuardedFields
            => wsMutex = IF connectPc' # connectPc THEN "connect" ELSE "other" ]_vars

\* the same for the handle alone, and for every call but Connect
C33_HandleAndOtherCallsGuarded ==
    [][ /\ wsConn' # wsConn
            => wsMutex = IF connectPc' # connectPc THEN "connect" ELSE "other"
        /\ (GuardedFields' # GuardedFields /\ connectPc' = connectPc) => wsMutex = "other" ]_vars

\* Connect has set the health fields while the other goroutine was inside
\* ReportSessionFailure, which then counts one failure on the new connection
C33_ConnectWroteUnderOthersLock ==
    /\ connectPc = "none"
    /\ clientRet
    /\ wsMutex = "other"
    /\ lockedOp = "ReportSessionFailure"
    /\ connectionHealth = 100
    /\ failedSessions = 0
    /\ wsConn = 2

----------------------------------------------------------------------------
(* Properties of the receive loops, checked under Spec *)

\* the handleResponses goroutines that are reading from connection k
LoopsReading(k) == {l \in ConnIds : loopPc[l] = LoopReading(k)}

\* a step in which a handleResponses goroutine has read a message from
\* connection k and has called the callbacks
Delivers(k) ==
    \E l \in ConnIds : loopPc[l] = LoopReading(k) /\ loopPc'[l] = LoopAt("top")

\* C34: no connection is read by two receive loops, and once the client has
\* dropped a connection and holds a new one no loop delivers a message read
\* from the old one.
C34_OneLoopPerConnection ==
    [][ /\ \A k \in ConnIds : Cardinality(LoopsReading(k)') <= 1
        /\ \A k \in ConnIds : (Delivers(k) /\ wsConn # 0) => wsConn = k ]_vars

\* the first part alone
C34_NoSharedRead ==
    \A k \in ConnIds : Cardinality(LoopsReading(k)) <= 1

\* the second part alone
C34_NoDeliveryFromOldConnection ==
    [][ \A k \in ConnIds : (Delivers(k) /\ wsConn # 0) => wsConn = k ]_vars

\* the loop started for the first connection and the loop started for the
\* second both read from the second
C34_TwoLoopsOnOneConnection ==
    /\ wsConn = 2
    /\ loopPc[1] = LoopReading(2)
    /\ loopPc[2] = LoopReading(2)

----------------------------------------------------------------------------
(* The phase of the gate and the loudest frame, checked under SpecDaemon *)

\* C35: in every state of the recorder the phase is SpeechDetected exactly
\* when the running maximum RMS has reached the silence threshold, and so a
\* release at or after the quick-press threshold ends as Silent exactly when
\* the phase is still WaitingForSpeech, and proceeds otherwise.
C35_PhaseFollowsMaxRMS ==
    [][ /\ (speechState' = "SpeechDetected") <=> (maxRMS' >= SilenceThreshold)
        /\ (speechState' = "WaitingForSpeech") <=> (maxRMS' < LowAudioRMS)
        /\ (ReleaseWhileRecording /\ now - pressTime >= QuickPressThreshold)
            => /\ (releaseOutcome' = "Silent") <=> (speechState = "WaitingForSpeech")
               /\ (releaseOutcome' = "Proceed") <=> (speechState = "SpeechDetected")
               /\ UNCHANGED <<speechState, maxRMS>> ]_vars

\* a long press whose loudest frame was exactly at the threshold has been
\* released and proceeds
C35_Witness ==
    /\ releaseOutcome = "Proceed"
    /\ speechState = "SpeechDetected"
    /\ maxRMS = SilenceThreshold
    /\ now - pressTime >= QuickPressThreshold
    /\ ~recording

\* a long press with frames, all of them quiet, has been released as Silent
C35_SilentWitness ==
    /\ releaseOutcome = "Silent"
    /\ speechState = "WaitingForSpeech"
    /\ frameCount > 0
    /\ now - pressTime >= QuickPressThreshold

----------------------------------------------------------------------------
(* The shutdown of Run during a session: Recorder.Stop in its two halves, the
   signal to the capture loop and the wait for it, called by OnRelease on the
   Listen goroutine and by Cleanup on the main goroutine.  No press is taken
   once Cleanup has begun; the service stays silent. *)

\* the variables the steps of Stop and of the capture loop leave alone
stopFrame == <<obsVars, clientVars, netVars, clientObsVars, maxRMS, silenceChunks, speechState,
               prolongedSilence, frameCount, frameScenario, anyLoud, anyQuiet, pressTime,
               keyDown, wasPressed, triggered, released, polling, listenPc, lastHandler,
               lockVars, svcVars, session, presses, waitSignal, ignored, refreshed, pasted,
               reported>>

\* OnPress, called by Listen while Run waits for the signal
RacePress ==
    /\ cleanupPc = "none"
    /\ DaemonPress

\* audioStreamLoop (part_004:175-260): a chunk is read and passed through the
\* gate, and the loop finds stopChan open in front of the callback
RaceCapture ==
    /\ recording
    /\ CaptureFrame

\* audioStreamLoop (part_004:176-180, 197-199, 256-258): the loop finds
\* stopChan closed and returns; a chunk it has read is not sent
LoopReturn ==
    /\ capturing
    /\ ~recording
    /\ capturing' = FALSE
    /\ pendingFrame' = FALSE
    /\ lastFrame' = IF pendingFrame THEN "dropped" ELSE lastFrame
    /\ UNCHANGED <<stopFrame, procVars, recording, pc, running, done, cleanupPc, releaseOutcome>>

\* OnRelease (part_000:199-203): IsRecording
ReleaseIsRecording ==
    /\ pc = "held"
    /\ IF ~recording
       THEN /\ releaseOutcome' = "NotRecording"
            /\ pc' = "idle"
       ELSE /\ pc' = "r_stop"
            /\ UNCHANGED releaseOutcome
    /\ UNCHANGED <<stopFrame, procVars, recording, capturing, pendingFrame, lastFrame, running,
                   done, cleanupPc>>

\* Recorder.Stop (part_004:138-150), called by OnRelease (part_000:209): it
\* returns at once if recording is false, else it closes stopChan
ReleaseStop ==
    /\ pc = "r_stop"
    /\ IF ~recording
       THEN /\ pc' = "r_verdict"
            /\ UNCHANGED recording
       ELSE /\ recording' = FALSE
            /\ pc' = "r_stopwait"
    /\ UNCHANGED <<stopFrame, procVars, capturing, pendingFrame, lastFrame, running, done,
                   cleanupPc, releaseOutcome>>

\* Recorder.Stop (part_004:152-163): streamWg.Wait returns
ReleaseStopWait ==
    /\ pc = "r_stopwait"
    /\ ~capturing
    /\ pc' = "r_verdict"
    /\ UNCHANGED <<stopFrame, procVars, recording, capturing, pendingFrame, lastFrame, running,
                   done, cleanupPc, releaseOutcome>>

\* OnRelease (part_000:212-243): the quick-press layer and the silence layer
ReleaseVerdict ==
    /\ pc = "r_verdict"
    /\ IF now - pressTime < QuickPressThreshold
       THEN /\ releaseOutcome' = "TooShort"
            /\ pc' = "idle"
            /\ UNCHANGED procVars
       ELSE IF maxRMS < LowAudioRMS
       THEN /\ releaseOutcome' = "Silent"
            /\ pc' = "idle"
            /\ Reset
       ELSE /\ releaseOutcome' = "Proceed"
            /\ pc' = "r_term"
            /\ UNCHANGED procVars
    /\ UNCHANGED <<stopFrame, recording, capturing, pendingFrame, lastFrame, running, done,
                   cleanupPc>>

\* Run (part_000:119-122) and Cleanup (part_000:127-130): the signal has come
\* and the hotkey manager is stopped
CleanupBegin ==
    /\ pc \notin {"init", "exit"}
    /\ cleanupPc = "none"
    /\ running' = FALSE
    /\ done' = TrySend(done, TRUE)
    /\ cleanupPc' = "c_recorder"
    /\ UNCHANGED <<stopFrame, procVars, recording, capturing, pendingFrame, lastFrame, pc,
                   releaseOutcome>>

\* Recorder.Stop (part_004:138-150), called by Cleanup (part_000:132-135)
CleanupRecorderStop ==
    /\ cleanupPc = "c_recorder"
    /\ IF ~recording
       THEN /\ cleanupPc' = "c_client"
            /\ UNCHANGED recording
       ELSE /\ recording' = FALSE
            /\ cleanupPc' = "c_wait"
    /\ UNCHANGED <<stopFrame, procVars, capturing, pendingFrame, lastFrame, pc, running, done,
                   releaseOutcome>>

\* Recorder.Stop (part_004:152-163): streamWg.Wait returns to Cleanup
CleanupRecorderWait ==
    /\ cleanupPc = "c_wait"
    /\ ~capturing
    /\ cleanupPc' = "c_client"
    /\ UNCHANGED <<stopFrame, procVars, recording, capturing, pendingFrame, lastFrame, pc,
                   running, done, releaseOutcome>>

StopNext ==
    \/ Initialize
    \/ RacePress
    \/ OnPressIsConnected
    \/ OnPressStart
    \/ HoldTick
    \/ RaceCapture
    \/ ForwardFrame
    \/ LoopReturn
    \/ ReleaseIsRecording
    \/ ReleaseStop
    \/ ReleaseStopWait
    \/ ReleaseVerdict
    \/ OnReleaseTerminate
    \/ OnReleaseWaitTimeout
    \/ OnReleaseConsume
    \/ OnReleaseReset
    \/ OnReleaseReport
    \/ CleanupBegin
    \/ CleanupRecorderStop
    \/ CleanupRecorderWait
    \/ CleanupClose

\* one session of the daemon and the shutdown at any time
SpecStop == SysSpecInit /\ [][StopNext]_vars

\* a step in which the capture loop calls the audio callback
SendsFrame == pendingFrame /\ ~pendingFrame' /\ lastFrame' = "forwarded"

\* the steps of OnRelease after Recorder.Stop has returned
StopReturned == {"r_verdict", "r_term", "r_wait", "r_consume", "r_reset", "r_report"}
\* the steps of OnRelease after Terminate has returned
TerminateReturned == {"r_wait", "r_consume", "r_reset", "r_report"}

\* the capture loop calls SendAudio only before Recorder.Stop has returned to
\* OnRelease, and once it has returned the capture loop has exited; this holds
\* of the sessions of Spec, where OnRelease is the only caller of Stop
C36_FramesBeforeTerminate ==
    [][ /\ SendsFrame => pc \notin StopReturned
        /\ pc' \in StopReturned => ~capturing' ]_vars

\* C36: in a session that proceeds every audio frame is written before the
\* Terminate request: the capture loop calls SendAudio in no step taken after
\* Terminate has returned to OnRelease.
C36_NoSendAfterTerminate == [][ SendsFrame => pc \notin TerminateReturned ]_vars

\* Terminate has been called while the capture loop still holds a chunk for
\* the callback
C36_LoopAliveAfterTerminate ==
    /\ pc \in TerminateReturned
    /\ capturing
    /\ pendingFrame

----------------------------------------------------------------------------
(* The health of the client after a failed probe, checked under Spec *)

\* C37: a press whose IsConnected probe fails on a handle goes on to Connect
\* with health 0 and no handle; while the health is 0
\* ConnectionNeedsRefresh() is true, and only a successful Connect, which
\* sets it to 100, takes the health off 0; a press whose Connect fails at
\* health 0 reports the failure, which leaves the health at 0 and adds one to
\* the failure counter.
C37_FailedProbeKeepsRefreshDue ==
    [][ /\ (pc = "p_isconn" /\ pc' # pc /\ wsConn # 0 /\ ~clientRet')
            => /\ connectionHealth' = 0
               /\ wsConn' = 0
               /\ pc' = "p_connect"
        /\ connectionHealth' = 0 => Degraded'
        /\ (connectionHealth = 0 /\ connectionHealth' # 0)
            => /\ pc = "p_connect"
               /\ pc' = "p_start"
               /\ connectionHealth' = 100
               /\ wsConn' # 0
        /\ (pc = "p_fail" /\ pc' # pc /\ connectionHealth = 0)
            => /\ connectionHealth' = 0
               /\ failedSessions' = failedSessions + 1
               /\ wsConn' = 0
               /\ ~recording' ]_vars

\* a press found the connection dead at the probe, its reconnect failed and
\* the failure is reported: one failure, health 0 at once
C37_Witness ==
    /\ pc = "held"
    /\ ~recording
    /\ ~refreshed
    /\ connectionHealth = 0
    /\ failedSessions = 1
    /\ wsConn = 0
    /\ reported # <<>>
    /\ reported[Len(reported)] = "failure"

----------------------------------------------------------------------------
(* The order of the handler calls of Listen, checked under SpecKeys *)

\* C38: Listen calls OnPress only when no handler is running and the handler
\* called last, if any, was OnRelease; it calls OnRelease only when OnPress
\* has returned and was the handler called last; the steps of a handler are
\* taken only inside the call Listen has made.  So the calls alternate,
\* starting with OnPress, and never overlap, whatever the key does.
C38_HandlersAlternate ==
    [][ /\ Len(triggered') < Len(triggered)
            => /\ lastHandler \in {"none", "OnRelease"}
               /\ pc = "idle"
               /\ listenPc = "select"
               /\ listenPc' = "press"
               /\ lastHandler' = "OnPress"
        /\ Len(released') < Len(released)
            => /\ lastHandler = "OnPress"
               /\ pc = "held"
               /\ listenPc = "press"
               /\ listenPc' = "release"
               /\ lastHandler' = "OnRelease"
        /\ lastHandler' # lastHandler
            => Len(triggered') < Len(triggered) \/ Len(released') < Len(released)
        /\ (pc' # pc /\ pc # "init")
            => /\ listenPc = IF pc = "held" THEN "release" ELSE "press"
               /\ listenPc' = listenPc ]_vars

\* two presses and two releases have been handled in turn, the second
\* release with the key down again
C38_Witness ==
    /\ presses = 2
    /\ lastHandler = "OnRelease"
    /\ listenPc = "select"
    /\ pc = "idle"
    /\ releaseOutcome # "none"
    /\ keyDown
    /\ triggered # <<>>

----------------------------------------------------------------------------
(* The release of a started recording, checked under SpecKeysLive *)

\* the goroutines run: pollKeyState polls every 100 ms, Listen takes what its
\* channels hold, a handler that has been called runs to its end.  Nothing is
\* assumed of the user.
KeysProgress ==
    /\ WF_hotkeyVars(HotkeyStart)
    /\ WF_hotkeyVars(RunListen)
    /\ WF_hotkeyVars(PollKeyState)
    /\ WF_hotkeyVars(ListenTriggered)
    /\ WF_hotkeyVars(ListenReleased)
    /\ WF_hotkeyVars(ListenLoop)
    /\ WF_pc(Initialize)
    /\ WF_pc(HandlerOnPress)
    /\ WF_pc(OnPressClose)
    /\ WF_pc(OnPressIsConnected)
    /\ WF_pc(OnPressConnect)
    /\ WF_pc(OnPressFail)
    /\ WF_pc(OnPressStart)
    /\ WF_pc(HandlerOnRelease)

SpecKeysLive == SpecKeys /\ KeysProgress

\* C39: if the key is released and stays released, a recording that was
\* started does not go on for ever: its OnRelease is called and the recorder
\* is stopped.
C39_ReleaseNeverLost == (<>[](~keyDown)) => <>[](~recording)

\* the key is up and seen up by the poller, both channels are empty, and
\* Listen waits for the release of a recording that goes on
C39_RecordingWithKeyUp ==
    /\ ~keyDown
    /\ ~wasPressed
    /\ triggered = <<>>
    /\ released = <<>>
    /\ listenPc = "press"
    /\ pc = "held"
    /\ recording

====
